---------------------------- MODULE Spec2Model ----------------------------
(***************************************************************************)
(* Model of libnciplugin: the NCI adapter state machine (nci_adapter.c)    *)
(* and the poll-side target data path (nci_target.c).                      *)
(*                                                                         *)
(* The adapter's private data and the current NciTarget object are the     *)
(* variables.  Every handler of the C code is an operator that maps a      *)
(* state record to a state record, composed in the order of the C          *)
(* statements; an action commits the record a handler returns.  NCI core   *)
(* and the nfcd framework are the environment: they deliver callbacks and  *)
(* call the adapter's methods, and their factories may fail.               *)
(***************************************************************************)
EXTENDS Integers, Sequences, FiniteSets, TLC

VARIABLES
    \* NciAdapterPriv and NciAdapter fields
    internal_state, active_intf, target, initiator, initiator_technology,
    tag, host, peer,
    presence_check_id, presence_check_timer, ce_reactivation_timer,
    supported_techs, active_techs, active_tech_mask,
    desired_mode, current_mode, mode_change_pending, mode_check_id,
    \* NfcAdapter (parent) fields read by the adapter
    powered, enabled, power_requested,
    \* NciCore fields read by the adapter
    nci_current_state, nci_next_state,
    \* the NciTarget object most recently created
    t_adapter, presence_check_fn, transmit_finish_fn,
    send_in_progress, transmit_in_progress, pending_reply,
    \* observation: objects created so far, what the last handler emitted
    next_id, out, fault

adapter_vars == <<internal_state, active_intf, target, initiator,
    initiator_technology, tag, host, peer, presence_check_id,
    presence_check_timer, ce_reactivation_timer, supported_techs,
    active_techs, active_tech_mask, desired_mode, current_mode,
    mode_change_pending, mode_check_id, next_id, fault>>

env_vars == <<powered, enabled, power_requested, nci_current_state,
    nci_next_state>>

target_vars == <<t_adapter, presence_check_fn, transmit_finish_fn,
    send_in_progress, transmit_in_progress, pending_reply>>

vars == <<adapter_vars, env_vars, target_vars, out>>

-----------------------------------------------------------------------------
(* Bounds of the model *)

\* objects (targets, initiators) the framework creates in one run
MaxObjects == 2
\* largest request id nci_core_send_data_msg hands out
MaxSendId == 1
\* longest payload of an inbound data packet
MaxLen == 2

-----------------------------------------------------------------------------
(* Constants of the program *)

NULL == 0

PRESENCE_CHECK_PERIOD_MS == 250
CE_REACTIVATION_TIMEOUT_MS == 1500
RANDOM_UID_SIZE == 4
RANDOM_UID_START_BYTE == 8
T2T_CMD_READ == 48

\* status octets of the Frame RF interface (NCI 1.0 table 94)
NCI_STATUS_OK == 0
NCI_STATUS_RF_FRAME_CORRUPTED == 2
NCI_STATUS_STATUS_OK_1_BIT == 17
NCI_STATUS_STATUS_OK_3_BIT == 19
NCI_STATUS_STATUS_OK_7_BIT == 23

NCI_STATIC_RF_CONN_ID == 0

\* NCI_TECH bit masks are sets of bits here: & is \cap, | is \cup
NCI_TECH_NONE == {}
NCI_TECH_A_POLL == {"A_POLL"}
NCI_TECH_A_LISTEN == {"A_LISTEN"}
NCI_TECH_B_POLL == {"B_POLL"}
NCI_TECH_B_LISTEN == {"B_LISTEN"}
NCI_TECH_F_POLL == {"F_POLL"}
NCI_TECH_F_LISTEN == {"F_LISTEN"}
NCI_TECH_V_POLL == {"V_POLL"}
NCI_TECH_A == NCI_TECH_A_POLL \cup NCI_TECH_A_LISTEN
NCI_TECH_B == NCI_TECH_B_POLL \cup NCI_TECH_B_LISTEN
NCI_TECH_F == NCI_TECH_F_POLL \cup NCI_TECH_F_LISTEN
NCI_TECH_ALL == NCI_TECH_A \cup NCI_TECH_B \cup NCI_TECH_F \cup NCI_TECH_V_POLL

\* NCI_STATE / NCI_RFST values in the order of the enum
NciStateRank(s) ==
    CASE s = "INIT" -> 0
      [] s = "ERROR" -> 1
      [] s = "STOP" -> 2
      [] s = "RFST_IDLE" -> 3
      [] s = "RFST_DISCOVERY" -> 4
      [] s = "RFST_W4_ALL_DISCOVERIES" -> 5
      [] s = "RFST_W4_HOST_SELECT" -> 6
      [] s = "RFST_POLL_ACTIVE" -> 7
      [] s = "RFST_LISTEN_ACTIVE" -> 8
      [] s = "RFST_LISTEN_SLEEP" -> 9

\* the NCI states the environment moves through
NciStates == {"ERROR", "RFST_IDLE", "RFST_DISCOVERY", "RFST_POLL_ACTIVE",
              "RFST_LISTEN_ACTIVE"}

AdapterStates == {"IDLE", "HAVE_TARGET", "HAVE_INITIATOR",
                  "REACTIVATING_TARGET", "REACTIVATING_CE", "REACTIVATED_CE"}

-----------------------------------------------------------------------------
(* Activation notifications and NciAdapterIntfInfo *)

\* first n bytes of two arrays are equal (memcmp(a, b, n) == 0)
MemEq(a, b, n) == \A i \in 1..n : a[i] = b[i]

NoPollA == [sel_res |-> 0, sel_res_len |-> 0, nfcid1_len |-> 0,
            sens_res |-> <<0, 0>>, nfcid1 |-> <<0, 0, 0, 0>>]
NoPollB == [fsc |-> 0, app_data |-> <<0>>, prot_info |-> <<>>,
            nfcid0 |-> <<0>>]

\* NciModeParam: a union; present = FALSE is the null pointer
NoModeParam == [present |-> FALSE, poll_a |-> NoPollA, poll_b |-> NoPollB]
ModeParamPollA(pa) == [present |-> TRUE, poll_a |-> pa, poll_b |-> NoPollB]
ModeParamPollB(pb) == [present |-> TRUE, poll_a |-> NoPollA, poll_b |-> pb]

\* NciIntfActivationNtf
Ntf(rf, proto, mode, mpb, mp, apb) ==
    [rf_intf |-> rf, protocol |-> proto, mode |-> mode,
     mode_param_bytes |-> mpb, mode_param |-> mp,
     activation_param_bytes |-> apb]

\* the null NciAdapterIntfInfo pointer
NoIntf == [null |-> TRUE, rf_intf |-> "NONE", protocol |-> "NONE",
           mode |-> "NONE", mode_param |-> <<>>, activation_param |-> <<>>,
           mode_param_parsed |-> NoModeParam]

\* nci_util_copy_mode_param: a deep copy, null for a null parameter
nci_util_copy_mode_param(mp, mode) == mp

nci_adapter_intf_info_new_NoActivationParam(ntf) ==
    [null |-> FALSE, rf_intf |-> ntf.rf_intf, protocol |-> ntf.protocol,
     mode |-> ntf.mode, mode_param |-> ntf.mode_param_bytes,
     activation_param |-> <<>>,
     mode_param_parsed |-> nci_util_copy_mode_param(ntf.mode_param, ntf.mode)]

nci_adapter_intf_info_new(ntf) ==
    [null |-> FALSE, rf_intf |-> ntf.rf_intf, protocol |-> ntf.protocol,
     mode |-> ntf.mode, mode_param |-> ntf.mode_param_bytes,
     activation_param |-> ntf.activation_param_bytes,
     mode_param_parsed |-> nci_util_copy_mode_param(ntf.mode_param, ntf.mode)]

mode_param_match_poll_a_FullUid(pa1, pa2) ==
    IF /\ pa1.sel_res = pa2.sel_res
       /\ pa1.sel_res_len = pa2.sel_res_len
       /\ pa1.nfcid1_len = pa2.nfcid1_len
       /\ pa1.sens_res = pa2.sens_res
    THEN MemEq(pa1.nfcid1, pa2.nfcid1, pa2.nfcid1_len)
    ELSE FALSE

mode_param_match_poll_a(pa1, pa2) ==
    IF /\ pa1.sel_res = pa2.sel_res
       /\ pa1.sel_res_len = pa2.sel_res_len
       /\ pa1.nfcid1_len = pa2.nfcid1_len
       /\ pa1.sens_res = pa2.sens_res
    THEN IF /\ pa1.nfcid1_len = RANDOM_UID_SIZE
            /\ pa1.nfcid1[1] = pa2.nfcid1[1]
            /\ pa2.nfcid1[1] = RANDOM_UID_START_BYTE
         THEN TRUE
         ELSE MemEq(pa1.nfcid1, pa2.nfcid1, pa2.nfcid1_len)
    ELSE FALSE

mode_param_match_poll_b_WithNfcid0(pb1, pb2) ==
    /\ pb1.fsc = pb2.fsc
    /\ pb1.app_data = pb2.app_data
    /\ pb1.nfcid0 = pb2.nfcid0
    /\ Len(pb1.prot_info) = Len(pb2.prot_info)
    /\ pb1.prot_info = pb2.prot_info

mode_param_match_poll_b(pb1, pb2) ==
    /\ pb1.fsc = pb2.fsc
    /\ pb1.app_data = pb2.app_data
    /\ Len(pb1.prot_info) = Len(pb2.prot_info)
    /\ pb1.prot_info = pb2.prot_info

nci_adapter_info_mode_params_matches_AnyIntf(info, ntf) ==
    LET mp1 == info.mode_param_parsed
        mp2 == ntf.mode_param
        full == /\ Len(info.mode_param) = Len(ntf.mode_param_bytes)
                /\ \/ Len(ntf.mode_param_bytes) = 0
                   \/ MemEq(info.mode_param, ntf.mode_param_bytes,
                            Len(ntf.mode_param_bytes))
    IN  IF mp1.present /\ mp2.present
        THEN CASE ntf.mode = "PASSIVE_POLL_A" ->
                    mode_param_match_poll_a(mp1.poll_a, mp2.poll_a)
               [] ntf.mode = "PASSIVE_POLL_B" ->
                    mode_param_match_poll_b(mp1.poll_b, mp2.poll_b)
               [] OTHER -> full
        ELSE full

nci_adapter_info_mode_params_matches(info, ntf) ==
    LET mp1 == info.mode_param_parsed
        mp2 == ntf.mode_param
        full == /\ Len(info.mode_param) = Len(ntf.mode_param_bytes)
                /\ \/ Len(ntf.mode_param_bytes) = 0
                   \/ MemEq(info.mode_param, ntf.mode_param_bytes,
                            Len(ntf.mode_param_bytes))
    IN  IF mp1.present /\ mp2.present
        THEN CASE ntf.mode = "PASSIVE_POLL_A"
                    /\ ntf.rf_intf \in {"FRAME", "ISO_DEP"} ->
                    mode_param_match_poll_a(mp1.poll_a, mp2.poll_a)
               [] ntf.mode = "PASSIVE_POLL_B" /\ ntf.rf_intf = "ISO_DEP" ->
                    mode_param_match_poll_b(mp1.poll_b, mp2.poll_b)
               [] OTHER -> full
        ELSE full

nci_adapter_intf_info_matches(info, ntf) ==
    /\ ~info.null
    /\ info.rf_intf = ntf.rf_intf
    /\ info.protocol = ntf.protocol
    /\ info.mode = ntf.mode
    /\ nci_adapter_info_mode_params_matches(info, ntf)
    /\ Len(info.activation_param) = Len(ntf.activation_param_bytes)
    /\ \/ Len(ntf.activation_param_bytes) = 0
       \/ MemEq(info.activation_param, ntf.activation_param_bytes,
                Len(ntf.activation_param_bytes))

-----------------------------------------------------------------------------
(* The state as one record, so that a handler is a function of it *)

S == [internal_state |-> internal_state, active_intf |-> active_intf,
      target |-> target, initiator |-> initiator,
      initiator_technology |-> initiator_technology,
      tag |-> tag, host |-> host, peer |-> peer,
      presence_check_id |-> presence_check_id,
      presence_check_timer |-> presence_check_timer,
      ce_reactivation_timer |-> ce_reactivation_timer,
      supported_techs |-> supported_techs, active_techs |-> active_techs,
      active_tech_mask |-> active_tech_mask,
      desired_mode |-> desired_mode, current_mode |-> current_mode,
      mode_change_pending |-> mode_change_pending,
      mode_check_id |-> mode_check_id,
      powered |-> powered, enabled |-> enabled,
      power_requested |-> power_requested,
      nci_current_state |-> nci_current_state,
      nci_next_state |-> nci_next_state,
      t_adapter |-> t_adapter, presence_check_fn |-> presence_check_fn,
      transmit_finish_fn |-> transmit_finish_fn,
      send_in_progress |-> send_in_progress,
      transmit_in_progress |-> transmit_in_progress,
      pending_reply |-> pending_reply,
      next_id |-> next_id,
      fault |-> fault, out |-> <<>>]

Commit(r) ==
    /\ internal_state' = r.internal_state
    /\ active_intf' = r.active_intf
    /\ target' = r.target
    /\ initiator' = r.initiator
    /\ initiator_technology' = r.initiator_technology
    /\ tag' = r.tag
    /\ host' = r.host
    /\ peer' = r.peer
    /\ presence_check_id' = r.presence_check_id
    /\ presence_check_timer' = r.presence_check_timer
    /\ ce_reactivation_timer' = r.ce_reactivation_timer
    /\ supported_techs' = r.supported_techs
    /\ active_techs' = r.active_techs
    /\ active_tech_mask' = r.active_tech_mask
    /\ desired_mode' = r.desired_mode
    /\ current_mode' = r.current_mode
    /\ mode_change_pending' = r.mode_change_pending
    /\ mode_check_id' = r.mode_check_id
    /\ powered' = r.powered
    /\ enabled' = r.enabled
    /\ power_requested' = r.power_requested
    /\ nci_current_state' = r.nci_current_state
    /\ nci_next_state' = r.nci_next_state
    /\ t_adapter' = r.t_adapter
    /\ presence_check_fn' = r.presence_check_fn
    /\ transmit_finish_fn' = r.transmit_finish_fn
    /\ send_in_progress' = r.send_in_progress
    /\ transmit_in_progress' = r.transmit_in_progress
    /\ pending_reply' = r.pending_reply
    /\ next_id' = r.next_id
    /\ fault' = r.fault
    /\ out' = r.out

\* what a handler emits: calls into NCI core and into the framework
Event(ev, obj, st, tech, flag, a) ==
    [ev |-> ev, obj |-> obj, st |-> st, tech |-> tech, flag |-> flag,
     data |-> <<>>,
     tag |-> a.tag, peer |-> a.peer, host |-> a.host,
     intf_null |-> a.active_intf.null]

Emit(a, e) == [a EXCEPT !.out = Append(@, e)]

nci_core_set_state(a, st) ==
    Emit(a, Event("nci_core_set_state", NULL, st, {}, FALSE, a))

nci_core_set_tech(a, tech) ==
    Emit(a, Event("nci_core_set_tech", NULL, "", tech, FALSE, a))

nci_core_cancel(a, id) ==
    Emit(a, Event("nci_core_cancel", id, "", {}, FALSE, a))

nfc_adapter_mode_notify(a, mode, confirmed) ==
    Emit(a, Event("mode_notify", NULL, "", mode, confirmed, a))

ReturnValue(a, v) == Emit(a, Event("return", NULL, "", {}, v, a))

NoReply == [present |-> FALSE, data |-> <<>>]
Reply(data) == [present |-> TRUE, data |-> data]

-----------------------------------------------------------------------------
(* nci_target.c: teardown of the target object *)

nci_target_cancel_send_KeepReply(a) ==
    IF a.send_in_progress # 0
    THEN LET a1 == IF a.t_adapter # NULL
                   THEN nci_core_cancel(a, a.send_in_progress)
                   ELSE a
         IN  [a1 EXCEPT !.send_in_progress = 0]
    ELSE a

nci_target_cancel_send(a) ==
    IF a.send_in_progress # 0
    THEN LET a1 == IF a.t_adapter # NULL
                   THEN nci_core_cancel(a, a.send_in_progress)
                   ELSE a
         IN  [a1 EXCEPT !.send_in_progress = 0, !.pending_reply = NoReply]
    ELSE a

nci_target_drop_adapter_KeepSend(a) ==
    IF a.t_adapter # NULL
    THEN LET a2 == Emit(a, Event("nci_core_remove_all_handlers", NULL, "",
                                 {}, FALSE, a))
         IN  [a2 EXCEPT !.t_adapter = NULL]
    ELSE a

nci_target_drop_adapter(a) ==
    IF a.t_adapter # NULL
    THEN LET a1 == nci_target_cancel_send(a)
             a2 == Emit(a1, Event("nci_core_remove_all_handlers", NULL, "",
                                  {}, FALSE, a1))
         IN  [a2 EXCEPT !.t_adapter = NULL]
    ELSE a

\* klass->gone: detach from NCI, then the framework's own gone
nci_target_gone(a, t) ==
    LET a1 == nci_target_drop_adapter(a)
    IN  Emit(a1, Event("target_gone", t, "", {}, FALSE, a1))

nci_target_cancel_transmit(a) ==
    nci_target_cancel_send([a EXCEPT !.transmit_in_progress = FALSE])

-----------------------------------------------------------------------------
(* nci_target.c: the data path *)

GDEBUG(a, msg) == Emit(a, Event("log", NULL, msg, {}, FALSE, a))

nfc_target_transmit_done(a, status, data) ==
    Emit(a, [Event("transmit_done", NULL, status, {}, FALSE, a)
                EXCEPT !.data = data])

\* the status octets the switch of nci_target_transmit_finish_frame knows
FrameStatusOk ==
    {NCI_STATUS_OK} \cup
    NCI_STATUS_STATUS_OK_1_BIT..NCI_STATUS_STATUS_OK_7_BIT

\* a finish function: whether it delivered the reply, and the state after
nci_target_transmit_finish_frame_KeepStatus(a, payload) ==
    IF Len(payload) > 0
          /\ payload[Len(payload)] # NCI_STATUS_RF_FRAME_CORRUPTED
    THEN [ok |-> TRUE, a |-> nfc_target_transmit_done(a, "OK", payload)]
    ELSE [ok |-> FALSE, a |-> a]

nci_target_transmit_finish_frame(a, payload) ==
    LET len == Len(payload)
    IN  IF len > 0
        THEN LET status == payload[len]
             IN  IF status # NCI_STATUS_RF_FRAME_CORRUPTED
                 THEN LET a1 == IF status \in FrameStatusOk
                                THEN a
                                ELSE GDEBUG(a, "Hmm... transmission status")
                      IN  [ok |-> TRUE,
                           a |-> nfc_target_transmit_done(
                                     a1, "OK", SubSeq(payload, 1, len - 1))]
                 ELSE [ok |-> FALSE,
                       a |-> GDEBUG(a, "Transmission status")]
        ELSE [ok |-> FALSE, a |-> a]

nci_target_transmit_finish_iso_dep(a, payload) ==
    [ok |-> TRUE, a |-> nfc_target_transmit_done(a, "OK", payload)]

nci_target_transmit_finish_nfc_dep(a, payload) ==
    [ok |-> TRUE, a |-> nfc_target_transmit_done(a, "OK", payload)]

\* self->transmit_finish_fn(target, payload, len)
transmit_finish_fn_call(a, payload) ==
    CASE a.transmit_finish_fn = "frame" ->
             nci_target_transmit_finish_frame(a, payload)
      [] a.transmit_finish_fn = "iso_dep" ->
             nci_target_transmit_finish_iso_dep(a, payload)
      [] a.transmit_finish_fn = "nfc_dep" ->
             nci_target_transmit_finish_nfc_dep(a, payload)
      [] OTHER -> [ok |-> FALSE, a |-> a]

nci_target_finish_transmit_KeepFlag(a, payload) ==
    LET f == transmit_finish_fn_call(a, payload)
    IN  IF a.transmit_finish_fn = "none" \/ ~f.ok
        THEN nfc_target_transmit_done(f.a, "ERROR", <<>>)
        ELSE f.a

nci_target_finish_transmit(a, payload) ==
    LET a1 == [a EXCEPT !.transmit_in_progress = FALSE]
        f == transmit_finish_fn_call(a1, payload)
    IN  IF a1.transmit_finish_fn = "none" \/ ~f.ok
        THEN nfc_target_transmit_done(f.a, "ERROR", <<>>)
        ELSE f.a

nci_target_data_sent_DropReply(a, success) ==
    [a EXCEPT !.send_in_progress = 0, !.pending_reply = NoReply]

\* the completion callback of nci_core_send_data_msg
nci_target_data_sent(a, success) ==
    LET a1 == [a EXCEPT !.send_in_progress = 0]
    IN  IF a1.pending_reply.present
        THEN LET payload == a1.pending_reply.data
                 a2 == GDEBUG(a1, "Send completed")
                 a3 == [a2 EXCEPT !.pending_reply = NoReply]
             IN  nci_target_finish_transmit(a3, payload)
        ELSE a1

nci_target_data_packet_handler_AnyCid(a, cid, data) ==
    IF a.transmit_in_progress /\ ~a.pending_reply.present
    THEN IF a.send_in_progress # 0
         THEN [a EXCEPT !.pending_reply = Reply(data)]
         ELSE nci_target_finish_transmit(a, data)
    ELSE GDEBUG(a, "Unhandled data packet")

nci_target_data_packet_handler(a, cid, data) ==
    IF /\ cid = NCI_STATIC_RF_CONN_ID
       /\ a.transmit_in_progress
       /\ ~a.pending_reply.present
    THEN IF a.send_in_progress # 0
         THEN LET a1 == GDEBUG(a, "Waiting for send to complete")
              IN  [a1 EXCEPT !.pending_reply = Reply(data)]
         ELSE nci_target_finish_transmit(a, data)
    ELSE GDEBUG(a, "Unhandled data packet")

nci_target_transmit_NoFlag(a, id) ==
    IF a.t_adapter # NULL
    THEN LET a1 == [a EXCEPT !.send_in_progress = id]
         IN  ReturnValue(a1, a1.send_in_progress # 0)
    ELSE ReturnValue(a, FALSE)

\* klass->transmit; id is what nci_core_send_data_msg returns, 0 when it
\* could not queue the message
nci_target_transmit(a, id) ==
    IF a.t_adapter # NULL
    THEN LET a1 == [a EXCEPT !.send_in_progress = id]
         IN  IF a1.send_in_progress # 0
             THEN ReturnValue([a1 EXCEPT !.transmit_in_progress = TRUE],
                              TRUE)
             ELSE ReturnValue(a1, FALSE)
    ELSE ReturnValue(a, FALSE)

-----------------------------------------------------------------------------
(* nci_adapter.c: helpers *)

nci_adapter_set_internal_state(a, state) ==
    IF a.internal_state # state
    THEN [a EXCEPT !.internal_state = state]
    ELSE a

nci_adapter_set_active_tag(a, obj) == [a EXCEPT !.tag = obj]
nci_adapter_set_active_peer(a, obj) == [a EXCEPT !.peer = obj]
nci_adapter_set_active_host(a, obj) == [a EXCEPT !.host = obj]

nci_adapter_clear_active_intf_Leak(a) == a

nci_adapter_clear_active_intf(a) ==
    IF ~a.active_intf.null
    THEN [a EXCEPT !.active_intf = NoIntf]
    ELSE a

nci_adapter_drop_target_KeepRefs(a) ==
    LET t == a.target
    IN  IF t # NULL
        THEN LET a1 == [a EXCEPT !.target = NULL]
                 a2 == nci_adapter_clear_active_intf(a1)
                 a3 == [a2 EXCEPT !.presence_check_timer = FALSE]
                 a6 == IF a3.presence_check_id # 0
                       THEN [nci_target_cancel_transmit(a3)
                                EXCEPT !.presence_check_id = 0]
                       ELSE a3
             IN  nci_target_gone(a6, t)
        ELSE a

nci_adapter_drop_target_KeepIntf(a) ==
    LET t == a.target
    IN  IF t # NULL
        THEN LET a1 == [a EXCEPT !.target = NULL]
                 a3 == [a1 EXCEPT !.presence_check_timer = FALSE]
                 a4 == nci_adapter_set_active_peer(a3, NULL)
                 a5 == nci_adapter_set_active_tag(a4, NULL)
                 a6 == IF a5.presence_check_id # 0
                       THEN [nci_target_cancel_transmit(a5)
                                EXCEPT !.presence_check_id = 0]
                       ELSE a5
             IN  nci_target_gone(a6, t)
        ELSE a

nci_adapter_drop_target(a) ==
    LET t == a.target
    IN  IF t # NULL
        THEN LET a1 == [a EXCEPT !.target = NULL]
                 a2 == nci_adapter_clear_active_intf(a1)
                 a3 == [a2 EXCEPT !.presence_check_timer = FALSE]
                 a4 == nci_adapter_set_active_peer(a3, NULL)
                 a5 == nci_adapter_set_active_tag(a4, NULL)
                 \* nfc_target_cancel_transmit ends in klass->cancel_transmit
                 a6 == IF a5.presence_check_id # 0
                       THEN [nci_target_cancel_transmit(a5)
                                EXCEPT !.presence_check_id = 0]
                       ELSE a5
             IN  nci_target_gone(a6, t)
        ELSE a

nci_adapter_drop_initiator_KeepMask(a) ==
    LET i == a.initiator
    IN  IF i # NULL
        THEN LET a1 == [a EXCEPT !.initiator = NULL]
                 a2 == nci_adapter_clear_active_intf(a1)
                 a3 == [a2 EXCEPT !.ce_reactivation_timer = FALSE]
                 a4 == nci_adapter_set_active_peer(a3, NULL)
                 a5 == nci_adapter_set_active_host(a4, NULL)
                 a6 == nci_core_set_tech(a5, a5.active_techs)
             IN  Emit(a6, Event("initiator_gone", i, "", {}, FALSE, a6))
        ELSE a

nci_adapter_drop_initiator(a) ==
    LET i == a.initiator
    IN  IF i # NULL
        THEN LET a1 == [a EXCEPT !.initiator = NULL,
                                 !.active_tech_mask = NCI_TECH_ALL]
                 a2 == nci_adapter_clear_active_intf(a1)
                 a3 == [a2 EXCEPT !.ce_reactivation_timer = FALSE]
                 a4 == nci_adapter_set_active_peer(a3, NULL)
                 a5 == nci_adapter_set_active_host(a4, NULL)
                 a6 == nci_core_set_tech(a5, a5.active_techs)
             IN  Emit(a6, Event("initiator_gone", i, "", {}, FALSE, a6))
        ELSE a

nci_adapter_drop_all(a) ==
    nci_adapter_drop_initiator(nci_adapter_drop_target(a))

nci_adapter_need_presence_checks_AnyProtocol(a) ==
    a.target # NULL /\ ~a.active_intf.null

nci_adapter_need_presence_checks(a) ==
    /\ a.target # NULL
    /\ ~a.active_intf.null
    /\ a.active_intf.protocol # "NFC_DEP"

nci_adapter_mode_check_IgnoreNciState(a) ==
    LET mode == a.desired_mode
        a1 == [a EXCEPT !.mode_check_id = FALSE]
    IN  IF a1.mode_change_pending
        THEN IF mode = a1.desired_mode
             THEN nfc_adapter_mode_notify(
                      [a1 EXCEPT !.mode_change_pending = FALSE,
                                 !.current_mode = mode], mode, TRUE)
             ELSE a1
        ELSE IF a1.current_mode # mode
             THEN nfc_adapter_mode_notify(
                      [a1 EXCEPT !.current_mode = mode], mode, FALSE)
             ELSE a1

nci_adapter_mode_check(a) ==
    LET mode == IF NciStateRank(a.nci_current_state) > NciStateRank("RFST_IDLE")
                THEN a.desired_mode ELSE {}
        a1 == [a EXCEPT !.mode_check_id = FALSE]
    IN  IF a1.mode_change_pending
        THEN IF mode = a1.desired_mode
             THEN nfc_adapter_mode_notify(
                      [a1 EXCEPT !.mode_change_pending = FALSE,
                                 !.current_mode = mode], mode, TRUE)
             ELSE a1
        ELSE IF a1.current_mode # mode
             THEN nfc_adapter_mode_notify(
                      [a1 EXCEPT !.current_mode = mode], mode, FALSE)
             ELSE a1

nci_adapter_schedule_mode_check(a) ==
    IF ~a.mode_check_id THEN [a EXCEPT !.mode_check_id = TRUE] ELSE a

nci_adapter_state_check_IgnoreNext(a) ==
    IF /\ a.nci_current_state = "RFST_IDLE"
       /\ a.enabled /\ a.powered /\ a.power_requested
    THEN nci_core_set_state(a, "RFST_DISCOVERY")
    ELSE a

nci_adapter_state_check(a) ==
    IF /\ a.nci_current_state = "RFST_IDLE"
       /\ a.nci_next_state = "RFST_IDLE"
       /\ a.enabled /\ a.powered /\ a.power_requested
    THEN nci_core_set_state(a, "RFST_DISCOVERY")
    ELSE a

-----------------------------------------------------------------------------
(* Object factories *)

PollModesA == {"PASSIVE_POLL_A", "ACTIVE_POLL_A"}
PollModesF == {"PASSIVE_POLL_F", "ACTIVE_POLL_F"}
ListenModesA == {"PASSIVE_LISTEN_A", "ACTIVE_LISTEN_A"}
ListenModesF == {"PASSIVE_LISTEN_F", "ACTIVE_LISTEN_F"}

\* nci_target_new: which target, if any, an activation makes
nci_target_new(ntf) ==
    LET tech == CASE ntf.mode \in PollModesA -> "A"
                  [] ntf.mode = "PASSIVE_POLL_B" -> "B"
                  [] ntf.mode \in PollModesF -> "F"
                  [] OTHER -> "UNKNOWN"
        protocol == CASE ntf.protocol = "T1T" -> "T1_TAG"
                      [] ntf.protocol = "T2T" -> "T2_TAG"
                      [] ntf.protocol = "T3T" -> "T3_TAG"
                      [] ntf.protocol = "ISO_DEP" /\ tech = "A" -> "T4A_TAG"
                      [] ntf.protocol = "ISO_DEP" /\ tech = "B" -> "T4B_TAG"
                      [] ntf.protocol = "NFC_DEP" -> "NFC_DEP"
                      [] OTHER -> "UNKNOWN"
        presence_check == CASE ntf.protocol = "T2T" -> "t2"
                            [] ntf.protocol = "ISO_DEP" -> "t4"
                            [] OTHER -> "none"
        transmit_finish ==
            CASE ntf.rf_intf = "FRAME"
                   /\ ntf.protocol \notin {"NFC_DEP", "ISO_DEP"} -> "frame"
              [] ntf.rf_intf = "ISO_DEP" -> "iso_dep"
              [] ntf.rf_intf = "NFC_DEP" -> "nfc_dep"
              [] OTHER -> "none"
    IN  [ok |-> tech # "UNKNOWN" /\ protocol # "UNKNOWN"
                /\ transmit_finish # "none",
         technology |-> tech, protocol |-> protocol,
         presence_check_fn |-> presence_check,
         transmit_finish_fn |-> transmit_finish]

\* nci_initiator_new: an initiator for a listen-side activation
nci_initiator_new(ntf) ==
    LET tech == CASE ntf.mode \in ListenModesA -> "A"
                  [] ntf.mode = "PASSIVE_LISTEN_B" -> "B"
                  [] ntf.mode \in ListenModesF -> "F"
                  [] OTHER -> "UNKNOWN"
    IN  [ok |-> tech # "UNKNOWN", technology |-> tech]

\* fw: which of the framework's factories return an object this time
FactoryResult(p, t, o, h) == [peer |-> p, tag |-> t, other |-> o, host |-> h]
FactoryResults == {FactoryResult(TRUE, TRUE, TRUE, TRUE),
                   FactoryResult(FALSE, TRUE, TRUE, TRUE),
                   FactoryResult(TRUE, FALSE, TRUE, TRUE),
                   FactoryResult(FALSE, FALSE, FALSE, FALSE)}

nci_adapter_create_known_tag(a, t, ntf, fw) ==
    LET known ==
          \/ /\ ntf.protocol = "T2T" /\ ntf.rf_intf = "FRAME"
             /\ ntf.mode \in PollModesA
          \/ /\ ntf.protocol = "ISO_DEP" /\ ntf.rf_intf = "ISO_DEP"
             /\ ntf.mode \in {"PASSIVE_POLL_A", "PASSIVE_POLL_B"}
    IN  nci_adapter_set_active_tag(a, IF known /\ fw.tag THEN t ELSE NULL)

nci_adapter_create_peer_initiator(a, t, ntf, fw) ==
    LET p2p == /\ ntf.protocol = "NFC_DEP" /\ ntf.rf_intf = "NFC_DEP"
               /\ ntf.mode \in PollModesA \cup PollModesF
    IN  nci_adapter_set_active_peer(a, IF p2p /\ fw.peer THEN t ELSE NULL)

nci_adapter_create_peer_target(a, i, ntf, fw) ==
    LET p2p == /\ ntf.rf_intf = "NFC_DEP"
               /\ ntf.mode \in ListenModesA \cup ListenModesF
    IN  nci_adapter_set_active_peer(a, IF p2p /\ fw.peer THEN i ELSE NULL)

nci_adapter_create_host(a, i, ntf, fw) ==
    nci_adapter_set_active_host(a,
        IF ntf.rf_intf = "ISO_DEP" /\ fw.host THEN i ELSE NULL)

-----------------------------------------------------------------------------
(* NCI adapter state machine events *)

nci_adapter_ce_reactivation_timeout(a) ==
    LET a1 == [a EXCEPT !.ce_reactivation_timer = FALSE]
        a2 == nci_adapter_set_internal_state(a1, "IDLE")
    IN  nci_adapter_drop_all(a2)

nci_adapter_start_ce_reactivation_timer_Noop(a) == a

nci_adapter_start_ce_reactivation_timer(a) ==
    [a EXCEPT !.ce_reactivation_timer = TRUE]

ActivationUpdateState_AlwaysReactivate(a, ntf) ==
    LET matches == nci_adapter_intf_info_matches(a.active_intf, ntf)
        st == a.internal_state
        dropI == nci_adapter_drop_initiator(
                     nci_adapter_set_internal_state(a, "IDLE"))
        dropT == nci_adapter_drop_target(
                     nci_adapter_set_internal_state(a, "IDLE"))
        reactivated ==
            LET a1 == nci_adapter_set_internal_state(a, "REACTIVATED_CE")
            IN  Emit(a1, Event("initiator_reactivated", a1.initiator, "",
                               {}, FALSE, a1))
    IN  CASE st = "IDLE" -> a
          [] st = "HAVE_TARGET" -> dropT
          [] st = "HAVE_INITIATOR" ->
               IF matches
               THEN IF a.host # NULL THEN reactivated ELSE a
               ELSE dropI
          [] st \in {"REACTIVATING_CE", "REACTIVATED_CE"} ->
               IF matches THEN reactivated ELSE dropI
          [] st = "REACTIVATING_TARGET" ->
               LET a1 == nci_adapter_set_internal_state(a, "HAVE_TARGET")
               IN  Emit(a1, Event("target_reactivated", a1.target, "",
                                  {}, FALSE, a1))

ActivationUpdateState_QuietWhenReactivated(a, ntf) ==
    LET matches == nci_adapter_intf_info_matches(a.active_intf, ntf)
        st == a.internal_state
        dropI == nci_adapter_drop_initiator(
                     nci_adapter_set_internal_state(a, "IDLE"))
        dropT == nci_adapter_drop_target(
                     nci_adapter_set_internal_state(a, "IDLE"))
        reactivated ==
            LET a1 == nci_adapter_set_internal_state(a, "REACTIVATED_CE")
            IN  Emit(a1, Event("initiator_reactivated", a1.initiator, "",
                               {}, FALSE, a1))
    IN  CASE st = "IDLE" -> a
          [] st = "HAVE_TARGET" -> dropT
          [] st = "HAVE_INITIATOR" ->
               IF matches
               THEN IF a.host # NULL THEN reactivated ELSE a
               ELSE dropI
          [] st = "REACTIVATING_CE" ->
               IF matches THEN reactivated ELSE dropI
          [] st = "REACTIVATED_CE" ->
               IF matches THEN a ELSE dropI
          [] st = "REACTIVATING_TARGET" ->
               IF matches
               THEN LET a1 == nci_adapter_set_internal_state(a,
                                  "HAVE_TARGET")
                    IN  Emit(a1, Event("target_reactivated", a1.target, "",
                            {}, FALSE, a1))
               ELSE dropT

ActivationUpdateState_KeepOnMismatch(a, ntf) ==
    LET matches == nci_adapter_intf_info_matches(a.active_intf, ntf)
        st == a.internal_state
        dropT == nci_adapter_drop_target(
                     nci_adapter_set_internal_state(a, "IDLE"))
        reactivated ==
            LET a1 == nci_adapter_set_internal_state(a, "REACTIVATED_CE")
            IN  Emit(a1, Event("initiator_reactivated", a1.initiator, "",
                               {}, FALSE, a1))
    IN  CASE st = "IDLE" -> a
          [] st = "HAVE_TARGET" -> dropT
          [] st = "HAVE_INITIATOR" ->
               IF matches /\ a.host # NULL THEN reactivated ELSE a
          [] st \in {"REACTIVATING_CE", "REACTIVATED_CE"} ->
               IF matches THEN reactivated ELSE a
          [] st = "REACTIVATING_TARGET" ->
               IF matches
               THEN LET a1 == nci_adapter_set_internal_state(a,
                                  "HAVE_TARGET")
                    IN  Emit(a1, Event("target_reactivated", a1.target, "",
                            {}, FALSE, a1))
               ELSE dropT

ActivationUpdateState_ReactivatePeer(a, ntf) ==
    LET matches == nci_adapter_intf_info_matches(a.active_intf, ntf)
        st == a.internal_state
        dropI == nci_adapter_drop_initiator(
                     nci_adapter_set_internal_state(a, "IDLE"))
        dropT == nci_adapter_drop_target(
                     nci_adapter_set_internal_state(a, "IDLE"))
    IN  CASE st = "IDLE" -> a
          [] st = "HAVE_TARGET" -> dropT
          [] st \in {"HAVE_INITIATOR", "REACTIVATING_CE", "REACTIVATED_CE"} ->
               IF matches
               THEN LET a1 == nci_adapter_set_internal_state(a,
                                  "REACTIVATED_CE")
                    IN  Emit(a1, Event("initiator_reactivated",
                            a1.initiator, "", {}, FALSE, a1))
               ELSE dropI
          [] st = "REACTIVATING_TARGET" ->
               IF matches
               THEN LET a1 == nci_adapter_set_internal_state(a,
                                  "HAVE_TARGET")
                    IN  Emit(a1, Event("target_reactivated", a1.target, "",
                            {}, FALSE, a1))
               ELSE dropT

\* the switch on internal_state at the head of nci_adapter_activation
ActivationUpdateState(a, ntf) ==
    LET matches == nci_adapter_intf_info_matches(a.active_intf, ntf)
        st == a.internal_state
        dropI == nci_adapter_drop_initiator(
                     nci_adapter_set_internal_state(a, "IDLE"))
        dropT == nci_adapter_drop_target(
                     nci_adapter_set_internal_state(a, "IDLE"))
    IN  CASE st = "IDLE" -> a
          [] st = "HAVE_TARGET" -> dropT
          [] st = "HAVE_INITIATOR" ->
               IF matches
               THEN IF a.host # NULL
                    THEN LET a1 == nci_adapter_set_internal_state(a,
                                       "REACTIVATED_CE")
                         IN  Emit(a1, Event("initiator_reactivated",
                                 a1.initiator, "", {}, FALSE, a1))
                    ELSE a
               ELSE dropI
          [] st \in {"REACTIVATING_CE", "REACTIVATED_CE"} ->
               IF matches
               THEN LET a1 == nci_adapter_set_internal_state(a,
                                  "REACTIVATED_CE")
                    IN  Emit(a1, Event("initiator_reactivated",
                            a1.initiator, "", {}, FALSE, a1))
               ELSE dropI
          [] st = "REACTIVATING_TARGET" ->
               IF matches
               THEN LET a1 == nci_adapter_set_internal_state(a,
                                  "HAVE_TARGET")
                    IN  Emit(a1, Event("target_reactivated", a1.target, "",
                            {}, FALSE, a1))
               ELSE dropT

\* the new NciTarget object of nci_target_new
NewTarget(a, tn) ==
    [a EXCEPT !.target = a.next_id, !.next_id = @ + 1,
              !.t_adapter = 1,
              !.presence_check_fn = tn.presence_check_fn,
              !.transmit_finish_fn = tn.transmit_finish_fn,
              !.send_in_progress = 0, !.transmit_in_progress = FALSE,
              !.pending_reply = NoReply]

\* "Object detection logic" of nci_adapter_activation
ObjectDetection(a, ntf, fw) ==
    IF a.target = NULL /\ a.initiator = NULL
    THEN LET tn == nci_target_new(ntf)
         IN  IF tn.ok
             THEN LET a1 == NewTarget(a, tn)
                      a2 == nci_adapter_set_internal_state(a1, "HAVE_TARGET")
                      a3 == nci_adapter_create_peer_initiator(a2, a2.target,
                                                              ntf, fw)
                  IN  IF a3.peer = NULL
                      THEN LET a4 == [a3 EXCEPT !.active_intf =
                                         nci_adapter_intf_info_new(ntf)]
                               a5 == nci_adapter_create_known_tag(a4,
                                         a4.target, ntf, fw)
                           IN  IF a5.tag = NULL
                               THEN nci_adapter_set_active_tag(a5,
                                        IF fw.other THEN a5.target ELSE NULL)
                               ELSE a5
                      ELSE a3
             ELSE LET in == nci_initiator_new(ntf)
                      i == a.next_id
                      b1 == nci_adapter_create_peer_target(a, i, ntf, fw)
                      b2 == IF b1.peer # NULL THEN b1
                            ELSE nci_adapter_create_host(b1, i, ntf, fw)
                  IN  IF in.ok
                      THEN IF b2.peer # NULL \/ b2.host # NULL
                           THEN nci_adapter_set_internal_state(
                                    [b2 EXCEPT !.initiator = i,
                                        !.next_id = @ + 1,
                                        !.initiator_technology = in.technology,
                                        !.active_intf =
                                            nci_adapter_intf_info_new(ntf)],
                                    "HAVE_INITIATOR")
                           ELSE b2
                      ELSE a
    ELSE a

\* object detection that does not look at the endpoints the adapter holds
ObjectDetection_Unguarded(a, ntf, fw) ==
    ObjectDetection([a EXCEPT !.target = NULL, !.initiator = NULL], ntf, fw)

StartPresenceChecks_StopOnly(a) ==
    IF nci_adapter_need_presence_checks(a)
    THEN a
    ELSE [a EXCEPT !.presence_check_timer = FALSE]

\* "Start periodic presence checks" of nci_adapter_activation
StartPresenceChecks(a) ==
    IF nci_adapter_need_presence_checks(a)
    THEN IF ~a.presence_check_timer
         THEN [a EXCEPT !.presence_check_timer = TRUE]
         ELSE a
    ELSE [a EXCEPT !.presence_check_timer = FALSE]

\* an activation handler that detects a new object without tearing the
\* old endpoint down
nci_adapter_activation_NoTeardown(a, ntf, fw) ==
    LET a1 == [a EXCEPT !.ce_reactivation_timer = FALSE]
        a3 == ObjectDetection_Unguarded(a1, ntf, fw)
        a4 == StartPresenceChecks(
                  [a3 EXCEPT !.target = IF @ = NULL THEN a1.target ELSE @,
                             !.initiator = IF @ = NULL THEN a1.initiator
                                           ELSE @])
    IN  IF a4.target = NULL /\ a4.initiator = NULL
        THEN nci_core_set_state(a4, "RFST_IDLE")
        ELSE a4

nci_adapter_activation_KeepCeTimer(a, ntf, fw) ==
    LET a2 == ActivationUpdateState(a, ntf)
        a3 == ObjectDetection(a2, ntf, fw)
        a4 == StartPresenceChecks(a3)
    IN  IF a4.target = NULL /\ a4.initiator = NULL
        THEN nci_core_set_state(a4, "RFST_IDLE")
        ELSE a4

nci_adapter_activation_NoIdle(a, ntf, fw) ==
    LET a1 == [a EXCEPT !.ce_reactivation_timer = FALSE]
        a2 == ActivationUpdateState(a1, ntf)
        a3 == ObjectDetection(a2, ntf, fw)
    IN  StartPresenceChecks(a3)

nci_adapter_activation(a, ntf, fw) ==
    LET a1 == [a EXCEPT !.ce_reactivation_timer = FALSE]
        a2 == ActivationUpdateState(a1, ntf)
        a3 == ObjectDetection(a2, ntf, fw)
        a4 == StartPresenceChecks(a3)
    IN  IF a4.target = NULL /\ a4.initiator = NULL
        THEN nci_core_set_state(a4, "RFST_IDLE")
        ELSE a4

\* priv->initiator->technology, read in nci_adapter_deactivation
CeTech(a) ==
    CASE a.initiator_technology = "A" -> NCI_TECH_A_LISTEN
      [] a.initiator_technology = "B" -> NCI_TECH_B_LISTEN
      [] OTHER -> NCI_TECH_NONE

nci_adapter_deactivation_NoLock(a) ==
    LET st == a.internal_state
        toIdle == nci_adapter_drop_all(
                      nci_adapter_set_internal_state(a, "IDLE"))
    IN  CASE st = "REACTIVATING_TARGET" -> a
          [] st = "REACTIVATING_CE" -> a
          [] st = "REACTIVATED_CE" ->
               nci_adapter_start_ce_reactivation_timer(
                   nci_adapter_set_internal_state(a, "REACTIVATING_CE"))
          [] st = "HAVE_INITIATOR" /\ a.host # NULL ->
               LET ce_tech == CeTech(a)
                   a1 == nci_adapter_set_internal_state(a, "REACTIVATING_CE")
                   a2 == nci_adapter_start_ce_reactivation_timer(a1)
               IN  IF ce_tech # NCI_TECH_NONE
                   THEN nci_core_set_tech(a2, a2.active_techs \cap ce_tech)
                   ELSE a2
          [] OTHER -> toIdle

nci_adapter_deactivation_DropWhileReactivating(a) ==
    LET st == a.internal_state
    IN  CASE st = "REACTIVATED_CE" ->
               nci_adapter_start_ce_reactivation_timer(
                   nci_adapter_set_internal_state(a, "REACTIVATING_CE"))
          [] st = "HAVE_INITIATOR" /\ a.host # NULL /\ a.initiator # NULL ->
               LET ce_tech == CeTech(a)
                   a1 == nci_adapter_set_internal_state(a, "REACTIVATING_CE")
                   a2 == nci_adapter_start_ce_reactivation_timer(a1)
               IN  IF ce_tech # NCI_TECH_NONE
                   THEN nci_core_set_tech(
                            [a2 EXCEPT !.active_tech_mask = ce_tech],
                            a2.active_techs \cap ce_tech)
                   ELSE a2
          [] OTHER -> nci_adapter_drop_all(
                          nci_adapter_set_internal_state(a, "IDLE"))

nci_adapter_deactivation(a) ==
    LET st == a.internal_state
        toIdle == nci_adapter_drop_all(
                      nci_adapter_set_internal_state(a, "IDLE"))
    IN  CASE st = "REACTIVATING_TARGET" -> a
          [] st = "REACTIVATING_CE" -> a
          [] st = "REACTIVATED_CE" ->
               nci_adapter_start_ce_reactivation_timer(
                   nci_adapter_set_internal_state(a, "REACTIVATING_CE"))
          [] st = "HAVE_INITIATOR" /\ a.host # NULL ->
               IF a.initiator = NULL
               THEN [a EXCEPT !.fault = TRUE]
               ELSE LET ce_tech == CeTech(a)
                        a1 == nci_adapter_set_internal_state(a,
                                  "REACTIVATING_CE")
                        a2 == nci_adapter_start_ce_reactivation_timer(a1)
                    IN  IF ce_tech # NCI_TECH_NONE
                        THEN nci_core_set_tech(
                                 [a2 EXCEPT !.active_tech_mask = ce_tech],
                                 a2.active_techs \cap ce_tech)
                        ELSE a2
          [] OTHER -> toIdle

-----------------------------------------------------------------------------
(* Interface of the adapter *)

nci_adapter_reactivate_IgnoreNext(a, t) ==
    IF /\ a.target = t /\ t # NULL
       /\ ~a.active_intf.null
       /\ a.internal_state = "HAVE_TARGET"
       /\ a.nci_current_state \in {"RFST_POLL_ACTIVE", "RFST_LISTEN_ACTIVE"}
    THEN LET a1 == nci_adapter_set_internal_state(a, "REACTIVATING_TARGET")
             a2 == [a1 EXCEPT !.presence_check_timer = FALSE]
             a3 == nci_core_set_state(a2, "RFST_DISCOVERY")
         IN  ReturnValue(a3, TRUE)
    ELSE ReturnValue(a, FALSE)

nci_adapter_reactivate_KeepTimer(a, t) ==
    IF /\ a.target = t /\ t # NULL
       /\ ~a.active_intf.null
       /\ a.internal_state = "HAVE_TARGET"
       /\ \/ /\ a.nci_current_state = "RFST_POLL_ACTIVE"
             /\ a.nci_next_state = "RFST_POLL_ACTIVE"
          \/ /\ a.nci_current_state = "RFST_LISTEN_ACTIVE"
             /\ a.nci_next_state = "RFST_LISTEN_ACTIVE"
    THEN LET a1 == nci_adapter_set_internal_state(a, "REACTIVATING_TARGET")
             a3 == nci_core_set_state(a1, "RFST_DISCOVERY")
         IN  ReturnValue(a3, TRUE)
    ELSE ReturnValue(a, FALSE)

nci_adapter_reactivate(a, t) ==
    IF /\ a.target = t /\ t # NULL
       /\ ~a.active_intf.null
       /\ a.internal_state = "HAVE_TARGET"
       /\ \/ /\ a.nci_current_state = "RFST_POLL_ACTIVE"
             /\ a.nci_next_state = "RFST_POLL_ACTIVE"
          \/ /\ a.nci_current_state = "RFST_LISTEN_ACTIVE"
             /\ a.nci_next_state = "RFST_LISTEN_ACTIVE"
    THEN LET a1 == nci_adapter_set_internal_state(a, "REACTIVATING_TARGET")
             a2 == [a1 EXCEPT !.presence_check_timer = FALSE]
             a3 == nci_core_set_state(a2, "RFST_DISCOVERY")
         IN  ReturnValue(a3, TRUE)
    ELSE ReturnValue(a, FALSE)

nci_adapter_deactivate_target(a, t) ==
    IF a.target = t /\ t # NULL
    THEN LET a1 == nci_adapter_drop_target(a)
         IN  IF a1.powered
             THEN nci_core_set_state(a1, "RFST_DISCOVERY")
             ELSE a1
    ELSE a

nci_adapter_deactivate_initiator_AnyInitiator(a, i) ==
    IF i # NULL
    THEN LET a1 == nci_adapter_drop_initiator(a)
         IN  IF a1.powered
             THEN nci_core_set_state(a1, "RFST_DISCOVERY")
             ELSE a1
    ELSE a

nci_adapter_deactivate_initiator(a, i) ==
    IF i # NULL /\ a.initiator = i
    THEN LET a1 == nci_adapter_drop_initiator(a)
         IN  IF a1.powered
             THEN nci_core_set_state(a1, "RFST_DISCOVERY")
             ELSE a1
    ELSE a

nci_adapter_presence_check_done_DropOnOk(a, t, ok) ==
    LET a1 == [a EXCEPT !.presence_check_id = 0]
    IN  IF ok THEN nci_adapter_deactivate_target(a1, t) ELSE a1

nci_adapter_presence_check_done(a, t, ok) ==
    LET a1 == [a EXCEPT !.presence_check_id = 0]
    IN  IF ~ok THEN nci_adapter_deactivate_target(a1, t) ELSE a1

nci_target_presence_check_AlwaysStarts(a, tx_ok) == 1

\* nci_target_presence_check: the id of the probe's transmit, 0 if none
\* was started; tx_ok is whether nfc_target_transmit accepted the probe
nci_target_presence_check(a, tx_ok) ==
    IF a.target # NULL /\ a.presence_check_fn # "none" /\ tx_ok
    THEN 1
    ELSE 0

nci_adapter_presence_check_timer_AlwaysProbe(a, seq_allows, tx_ok) ==
    LET id == nci_target_presence_check(a, tx_ok)
        a1 == [a EXCEPT !.presence_check_id = id]
    IN  IF id = 0
        THEN nci_core_set_state([a1 EXCEPT !.presence_check_timer = FALSE],
                                "RFST_DISCOVERY")
        ELSE a1

\* seq_allows: there is no sequence, or its flags allow presence checks
nci_adapter_presence_check_timer(a, seq_allows, tx_ok) ==
    IF a.target = NULL
    THEN [a EXCEPT !.fault = TRUE]
    ELSE IF a.presence_check_id = 0 /\ seq_allows
         THEN LET id == nci_target_presence_check(a, tx_ok)
                  a1 == [a EXCEPT !.presence_check_id = id]
              IN  IF id = 0
                  THEN nci_core_set_state(
                           [a1 EXCEPT !.presence_check_timer = FALSE],
                           "RFST_DISCOVERY")
                  ELSE a1
         ELSE a

NfcModes == {"READER_WRITER", "P2P_INITIATOR", "P2P_TARGET",
             "CARD_EMULATION"}

OpMode(mode) ==
    (IF "READER_WRITER" \in mode THEN {"RW", "POLL"} ELSE {})
    \cup (IF "P2P_INITIATOR" \in mode THEN {"PEER", "POLL"} ELSE {})
    \cup (IF "P2P_TARGET" \in mode THEN {"PEER", "LISTEN"} ELSE {})
    \cup (IF "CARD_EMULATION" \in mode THEN {"CE", "LISTEN"} ELSE {})

nci_adapter_submit_mode_request(a, mode) ==
    LET op_mode == OpMode(mode)
        a1 == [a EXCEPT !.desired_mode = mode, !.mode_change_pending = TRUE]
        a2 == Emit(a1, Event("nci_core_set_op_mode", NULL, "", op_mode,
                             FALSE, a1))
        a3 == IF op_mode # {} /\ a2.powered
              THEN nci_core_set_state(a2, "RFST_DISCOVERY")
              ELSE a2
    IN  nci_adapter_schedule_mode_check(a3)

nci_adapter_cancel_mode_request(a) ==
    nci_adapter_schedule_mode_check([a EXCEPT !.mode_change_pending = FALSE])

nci_adapter_mode_check_cb(a) ==
    nci_adapter_mode_check([a EXCEPT !.mode_check_id = FALSE])

nci_adapter_current_state_changed(a) ==
    nci_adapter_mode_check(nci_adapter_state_check(a))

nci_adapter_next_state_changed(a) ==
    LET next == a.nci_next_state
        a1 == CASE next = "RFST_IDLE" ->
                     IF NciStateRank(a.nci_current_state)
                            > NciStateRank("RFST_IDLE")
                     THEN nci_adapter_deactivation(a) ELSE a
                [] next = "RFST_DISCOVERY" ->
                     IF a.nci_current_state # "RFST_IDLE"
                     THEN nci_adapter_deactivation(a) ELSE a
                [] next \in {"RFST_W4_ALL_DISCOVERIES", "RFST_W4_HOST_SELECT",
                             "RFST_POLL_ACTIVE", "RFST_LISTEN_ACTIVE",
                             "RFST_LISTEN_SLEEP"} -> a
                [] OTHER -> nci_adapter_drop_all(
                                nci_adapter_set_internal_state(a, "IDLE"))
    IN  nci_adapter_mode_check(nci_adapter_state_check(a1))

nci_adapter_set_allowed_techs_Unmasked(a, techs) ==
    LET affected == NCI_TECH_A \cup NCI_TECH_B \cup NCI_TECH_F
        t0 == a.supported_techs \ affected
        tA == IF "A" \in techs THEN a.supported_techs \cap NCI_TECH_A ELSE {}
        tB == IF "B" \in techs THEN a.supported_techs \cap NCI_TECH_B ELSE {}
        tF == IF "F" \in techs THEN a.supported_techs \cap NCI_TECH_F ELSE {}
        a1 == [a EXCEPT !.active_techs = t0 \cup tA \cup tB \cup tF]
    IN  nci_core_set_tech(a1, a1.active_techs)

\* techs: the NFC_TECHNOLOGY bits A, B, F the framework allows
nci_adapter_set_allowed_techs(a, techs) ==
    LET affected == NCI_TECH_A \cup NCI_TECH_B \cup NCI_TECH_F
        t0 == a.supported_techs \ affected
        tA == IF "A" \in techs THEN a.supported_techs \cap NCI_TECH_A ELSE {}
        tB == IF "B" \in techs THEN a.supported_techs \cap NCI_TECH_B ELSE {}
        tF == IF "F" \in techs THEN a.supported_techs \cap NCI_TECH_F ELSE {}
        a1 == [a EXCEPT !.active_techs = t0 \cup tA \cup tB \cup tF]
    IN  nci_core_set_tech(a1, a1.active_techs \cap a1.active_tech_mask)

-----------------------------------------------------------------------------
(* The activation notifications NCI core delivers in this model *)

PollA_1 == [sel_res |-> 0, sel_res_len |-> 1, nfcid1_len |-> 4,
            sens_res |-> <<68, 0>>, nfcid1 |-> <<4, 17, 34, 51>>]
PollA_2 == [sel_res |-> 0, sel_res_len |-> 1, nfcid1_len |-> 4,
            sens_res |-> <<68, 0>>, nfcid1 |-> <<4, 17, 34, 52>>]
PollA_P2P == [sel_res |-> 64, sel_res_len |-> 1, nfcid1_len |-> 4,
              sens_res |-> <<4, 0>>, nfcid1 |-> <<8, 1, 2, 3>>]

\* SENS_RES, NFCID1 length, NFCID1, SEL_RES length, SEL_RES
PollABytes(pa) ==
    pa.sens_res \o <<pa.nfcid1_len>> \o SubSeq(pa.nfcid1, 1, pa.nfcid1_len)
    \o <<pa.sel_res_len, pa.sel_res>>

NtfT2 == Ntf("FRAME", "T2T", "PASSIVE_POLL_A", PollABytes(PollA_1),
             ModeParamPollA(PollA_1), <<>>)
NtfT2Other == Ntf("FRAME", "T2T", "PASSIVE_POLL_A", PollABytes(PollA_2),
                  ModeParamPollA(PollA_2), <<>>)
NtfT1 == Ntf("FRAME", "T1T", "PASSIVE_POLL_A", PollABytes(PollA_1),
             ModeParamPollA(PollA_1), <<>>)
NtfPeerPoll == Ntf("NFC_DEP", "NFC_DEP", "PASSIVE_POLL_A",
                   PollABytes(PollA_P2P), ModeParamPollA(PollA_P2P), <<1>>)
NtfHostA == Ntf("ISO_DEP", "ISO_DEP", "PASSIVE_LISTEN_A", <<>>, NoModeParam,
                <<2>>)
NtfHostB == Ntf("ISO_DEP", "ISO_DEP", "PASSIVE_LISTEN_B", <<>>, NoModeParam,
                <<2>>)
NtfPeerListen == Ntf("NFC_DEP", "NFC_DEP", "PASSIVE_LISTEN_F", <<3>>,
                     NoModeParam, <<1>>)
NtfUnknown == Ntf("PROPRIETARY", "PROPRIETARY", "PASSIVE_POLL_15693", <<>>,
                  NoModeParam, <<>>)

NtfT4A == Ntf("ISO_DEP", "ISO_DEP", "PASSIVE_POLL_A", PollABytes(PollA_1),
              ModeParamPollA(PollA_1), <<5>>)

\* the activations that make a target with each of the finish functions
TargetNtfs == {NtfT2, NtfT4A, NtfPeerPoll}

\* octets of an inbound data packet: STATUS_OK, STATUS_RF_FRAME_CORRUPTED,
\* STATUS_OK_3_BIT and 0x90, which is no status the switch knows
Bytes == {NCI_STATUS_OK, NCI_STATUS_RF_FRAME_CORRUPTED,
          NCI_STATUS_STATUS_OK_3_BIT, 144}
Payloads == UNION {[1..n -> Bytes] : n \in 0..MaxLen}
Cids == {NCI_STATIC_RF_CONN_ID, NCI_STATIC_RF_CONN_ID + 1}
SendIds == 0..MaxSendId

Ntfs == {NtfT2, NtfT2Other, NtfT1, NtfPeerPoll, NtfHostA, NtfHostB,
         NtfPeerListen, NtfUnknown}

\* what the framework asks for in this model
ModeRequests == {{}, {"READER_WRITER"}, {"READER_WRITER", "CARD_EMULATION"}}
AllowedTechs == {{"A"}, {"B", "F"}, {"A", "B", "F"}}
\* (enabled, powered, power_requested) of the NfcAdapter
PowerStates == {<<FALSE, FALSE, FALSE>>, <<TRUE, FALSE, TRUE>>,
                <<TRUE, TRUE, TRUE>>}

-----------------------------------------------------------------------------
(* Initial state: nci_adapter_init and nci_adapter_init_base *)

InitAdapter ==
    /\ internal_state = "IDLE"
    /\ active_intf = NoIntf
    /\ target = NULL
    /\ initiator = NULL
    /\ initiator_technology = "UNKNOWN"
    /\ tag = NULL /\ host = NULL /\ peer = NULL
    /\ presence_check_id = 0
    /\ presence_check_timer = FALSE
    /\ ce_reactivation_timer = FALSE
    /\ supported_techs = NCI_TECH_ALL
    /\ active_techs = NCI_TECH_ALL
    /\ active_tech_mask = NCI_TECH_ALL
    /\ desired_mode = {}
    /\ current_mode = {}
    /\ mode_change_pending = FALSE
    /\ mode_check_id = FALSE
    /\ next_id = 1
    /\ fault = FALSE

InitEnv ==
    /\ powered = FALSE /\ enabled = FALSE /\ power_requested = FALSE
    /\ nci_current_state = "INIT"
    /\ nci_next_state = "INIT"

InitNoTarget ==
    /\ t_adapter = NULL
    /\ presence_check_fn = "none"
    /\ transmit_finish_fn = "none"
    /\ send_in_progress = 0
    /\ transmit_in_progress = FALSE
    /\ pending_reply = NoReply

Init ==
    /\ InitAdapter /\ InitEnv /\ InitNoTarget
    /\ out = <<>>

-----------------------------------------------------------------------------
(* Actions: callbacks from NCI core *)

\* RF_INTF_ACTIVATED_NTF comes in RFST_DISCOVERY; the active state may
\* already have been entered when the adapter hears of it
NciIntfActivated(ntf, fw) ==
    /\ ~fault
    /\ next_id < MaxObjects + 1
    /\ nci_current_state \in {"RFST_DISCOVERY", "RFST_POLL_ACTIVE",
                              "RFST_LISTEN_ACTIVE"}
    /\ Commit(nci_adapter_activation(S, ntf, fw))

NciNextStateChanged(s) ==
    /\ ~fault
    /\ s # nci_next_state
    /\ Commit(nci_adapter_next_state_changed([S EXCEPT !.nci_next_state = s]))

NciCurrentStateChanged ==
    /\ ~fault
    /\ nci_current_state # nci_next_state
    /\ Commit(nci_adapter_current_state_changed(
                  [S EXCEPT !.nci_current_state = nci_next_state]))

(* Actions: timers of the main loop *)

CeReactivationTimeout ==
    /\ ~fault
    /\ ce_reactivation_timer
    /\ Commit(nci_adapter_ce_reactivation_timeout(S))

PresenceCheckTimer(seq_allows, tx_ok) ==
    /\ ~fault
    /\ presence_check_timer
    /\ Commit(nci_adapter_presence_check_timer(S, seq_allows, tx_ok))

ModeCheckCb ==
    /\ ~fault
    /\ mode_check_id
    /\ Commit(nci_adapter_mode_check_cb(S))

(* Actions: calls from the framework *)

PresenceCheckDone(ok) ==
    /\ ~fault
    /\ presence_check_id # 0
    /\ Commit(nci_adapter_presence_check_done(S, target, ok))

Reactivate(t) ==
    /\ ~fault
    /\ Commit(nci_adapter_reactivate(S, t))

DeactivateTarget(t) ==
    /\ ~fault
    /\ Commit(nci_adapter_deactivate_target(S, t))

DeactivateInitiator(i) ==
    /\ ~fault
    /\ Commit(nci_adapter_deactivate_initiator(S, i))

SubmitModeRequest(mode) ==
    /\ ~fault
    /\ Commit(nci_adapter_submit_mode_request(S, mode))

CancelModeRequest ==
    /\ ~fault
    /\ Commit(nci_adapter_cancel_mode_request(S))

SetAllowedTechs(techs) ==
    /\ ~fault
    /\ Commit(nci_adapter_set_allowed_techs(S, techs))

\* the framework destroys a tag, peer or host: the weak pointer is nulled
WeakPointerCleared(which) ==
    /\ ~fault
    /\ \/ which = "tag" /\ tag # NULL
       \/ which = "peer" /\ peer # NULL
       \/ which = "host" /\ host # NULL
    /\ Commit([S EXCEPT !.tag = IF which = "tag" THEN NULL ELSE @,
                        !.peer = IF which = "peer" THEN NULL ELSE @,
                        !.host = IF which = "host" THEN NULL ELSE @])

\* the framework powers the adapter up or down
PowerChanged(p) ==
    /\ ~fault
    /\ p # <<enabled, powered, power_requested>>
    /\ Commit([S EXCEPT !.enabled = p[1], !.powered = p[2],
                        !.power_requested = p[3]])

(* Actions: the target data path *)

\* an NciTarget object has been created
TargetExists == transmit_finish_fn # "none"

\* the framework submits the next queued transmit
Transmit(id) ==
    /\ ~fault
    /\ TargetExists
    /\ send_in_progress = 0 /\ ~transmit_in_progress
    /\ Commit(nci_target_transmit(S, id))

\* NCI core completes the send
DataSent(success) ==
    /\ ~fault
    /\ send_in_progress # 0
    /\ Commit(nci_target_data_sent(S, success))

\* NCI core delivers a data packet to the registered handler
DataPacket(cid, data) ==
    /\ ~fault
    /\ t_adapter # NULL
    /\ Commit(nci_target_data_packet_handler(S, cid, data))

\* the framework gives a transmit up
CancelTransmit ==
    /\ ~fault
    /\ TargetExists
    /\ Commit(nci_target_cancel_transmit(S))

Objects == 0..MaxObjects

Next ==
    \/ \E ntf \in Ntfs, fw \in FactoryResults : NciIntfActivated(ntf, fw)
    \/ \E s \in NciStates : NciNextStateChanged(s)
    \/ NciCurrentStateChanged
    \/ CeReactivationTimeout
    \/ \E sa, tx \in BOOLEAN : PresenceCheckTimer(sa, tx)
    \/ \E ok \in BOOLEAN : PresenceCheckDone(ok)
    \/ \E t \in Objects : Reactivate(t)
    \/ \E t \in Objects : DeactivateTarget(t)
    \/ \E i \in Objects : DeactivateInitiator(i)
    \/ \E w \in {"tag", "peer", "host"} : WeakPointerCleared(w)
    \/ \E p \in PowerStates : PowerChanged(p)

Spec == Init /\ [][Next]_vars

\* the data path of a target, from its activation to its teardown
NextTarget ==
    \/ \E ntf \in TargetNtfs :
           NciIntfActivated(ntf, FactoryResult(TRUE, TRUE, TRUE, TRUE))
    \/ \E s \in {"RFST_DISCOVERY", "RFST_POLL_ACTIVE"} :
           NciNextStateChanged(s)
    \/ NciCurrentStateChanged
    \/ \E id \in SendIds : Transmit(id)
    \/ \E ok \in BOOLEAN : DataSent(ok)
    \/ \E cid \in Cids, data \in Payloads : DataPacket(cid, data)
    \/ CancelTransmit
    \/ \E t \in Objects : DeactivateTarget(t)

SpecTarget == Init /\ [][NextTarget]_vars

-----------------------------------------------------------------------------
(* Matching an activation against the stored NciAdapterIntfInfo *)

\* an enabled, powered adapter that has just been constructed, with NCI in
\* RFST_DISCOVERY
AdapterInDiscovery ==
    [internal_state |-> "IDLE",
     active_intf |-> NoIntf,
     target |-> NULL,
     initiator |-> NULL,
     initiator_technology |-> "UNKNOWN",
     tag |-> NULL,
     host |-> NULL,
     peer |-> NULL,
     presence_check_id |-> 0,
     presence_check_timer |-> FALSE,
     ce_reactivation_timer |-> FALSE,
     supported_techs |-> NCI_TECH_ALL,
     active_techs |-> NCI_TECH_ALL,
     active_tech_mask |-> NCI_TECH_ALL,
     desired_mode |-> {},
     current_mode |-> {},
     mode_change_pending |-> FALSE,
     mode_check_id |-> FALSE,
     powered |-> TRUE,
     enabled |-> TRUE,
     power_requested |-> TRUE,
     nci_current_state |-> "RFST_DISCOVERY",
     nci_next_state |-> "RFST_DISCOVERY",
     t_adapter |-> NULL,
     presence_check_fn |-> "none",
     transmit_finish_fn |-> "none",
     send_in_progress |-> 0,
     transmit_in_progress |-> FALSE,
     pending_reply |-> NoReply,
     next_id |-> 1,
     fault |-> FALSE,
     out |-> <<>>]

\* the variables hold the adapter r
StateIs(r) ==
    /\ internal_state = r.internal_state
    /\ active_intf = r.active_intf
    /\ target = r.target
    /\ initiator = r.initiator
    /\ initiator_technology = r.initiator_technology
    /\ tag = r.tag
    /\ host = r.host
    /\ peer = r.peer
    /\ presence_check_id = r.presence_check_id
    /\ presence_check_timer = r.presence_check_timer
    /\ ce_reactivation_timer = r.ce_reactivation_timer
    /\ supported_techs = r.supported_techs
    /\ active_techs = r.active_techs
    /\ active_tech_mask = r.active_tech_mask
    /\ desired_mode = r.desired_mode
    /\ current_mode = r.current_mode
    /\ mode_change_pending = r.mode_change_pending
    /\ mode_check_id = r.mode_check_id
    /\ powered = r.powered
    /\ enabled = r.enabled
    /\ power_requested = r.power_requested
    /\ nci_current_state = r.nci_current_state
    /\ nci_next_state = r.nci_next_state
    /\ t_adapter = r.t_adapter
    /\ presence_check_fn = r.presence_check_fn
    /\ transmit_finish_fn = r.transmit_finish_fn
    /\ send_in_progress = r.send_in_progress
    /\ transmit_in_progress = r.transmit_in_progress
    /\ pending_reply = r.pending_reply
    /\ next_id = r.next_id
    /\ fault = r.fault
    /\ out = r.out

\* NFCID1 values: single size with and without the random-UID first octet,
\* and double size
Nfcid1s == {<<RANDOM_UID_START_BYTE, 1, 2, 3>>,
            <<RANDOM_UID_START_BYTE, 9, 2, 3>>,
            <<4, 1, 2, 3>>, <<4, 9, 2, 3>>,
            <<RANDOM_UID_START_BYTE, 1, 2, 3, 4, 5, 6>>,
            <<RANDOM_UID_START_BYTE, 9, 2, 3, 4, 5, 6>>}

\* NciModeParamPollA values that differ from one another in one field or in
\* the NFCID1
MatchPollAs ==
    LET base(u) == [sel_res |-> 0, sel_res_len |-> 1, nfcid1_len |-> Len(u),
                    sens_res |-> <<68, 0>>, nfcid1 |-> u]
    IN  UNION {{base(u),
                [base(u) EXCEPT !.sel_res = 32],
                [base(u) EXCEPT !.sel_res_len = 0],
                [base(u) EXCEPT !.sens_res = <<4, 0>>]} : u \in Nfcid1s}

\* NciModeParamPollB values that differ from one another in one field or in
\* the NFCID0
MatchPollBs ==
    LET base(u) == [fsc |-> 32, app_data |-> <<0>>, prot_info |-> <<1>>,
                    nfcid0 |-> u]
    IN  UNION {{base(u),
                [base(u) EXCEPT !.fsc = 256],
                [base(u) EXCEPT !.app_data = <<1>>],
                [base(u) EXCEPT !.prot_info = <<2>>],
                [base(u) EXCEPT !.prot_info = <<1, 2>>],
                [base(u) EXCEPT !.prot_info = <<>>]} : u \in {<<0>>, <<7>>}}

\* NFCID0, application data, protocol info
PollBBytes(pb) == pb.nfcid0 \o pb.app_data \o pb.prot_info

\* poll A activations on the Frame, ISO-DEP and NFC-DEP interfaces
MatchNtfsPollA ==
    {Ntf(i[1], i[2], i[3], PollABytes(pa), ModeParamPollA(pa), i[4]) :
        i \in {<<"FRAME", "T2T", "PASSIVE_POLL_A", <<>> >>,
               <<"ISO_DEP", "ISO_DEP", "PASSIVE_POLL_A", <<5>> >>,
               <<"ISO_DEP", "ISO_DEP", "PASSIVE_POLL_A", <<6>> >>,
               <<"NFC_DEP", "NFC_DEP", "PASSIVE_POLL_A", <<1>> >>,
               <<"NFC_DEP", "NFC_DEP", "ACTIVE_POLL_A", <<1>> >>},
        pa \in MatchPollAs}

\* poll B activations on the ISO-DEP and Frame interfaces
MatchNtfsPollB ==
    {Ntf(i[1], i[2], "PASSIVE_POLL_B", PollBBytes(pb), ModeParamPollB(pb),
         i[3]) :
        i \in {<<"ISO_DEP", "ISO_DEP", <<>> >>,
               <<"ISO_DEP", "ISO_DEP", <<5>> >>,
               <<"FRAME", "T2T", <<>> >>},
        pb \in MatchPollBs}

\* activations whose mode parameters NCI core did not parse
MatchNtfsRaw ==
    {Ntf(i[1], i[2], i[3], mpb, NoModeParam, apb) :
        i \in {<<"ISO_DEP", "ISO_DEP", "PASSIVE_LISTEN_A">>,
               <<"ISO_DEP", "ISO_DEP", "PASSIVE_LISTEN_B">>,
               <<"NFC_DEP", "NFC_DEP", "PASSIVE_LISTEN_F">>,
               <<"FRAME", "T3T", "PASSIVE_POLL_F">>,
               <<"ISO_DEP", "ISO_DEP", "PASSIVE_POLL_A">>,
               <<"ISO_DEP", "ISO_DEP", "PASSIVE_POLL_B">>},
        mpb \in {<<>>, <<3>>, <<4>>, <<3, 4>>},
        apb \in {<<>>, <<2>>}}

MatchNtfs == MatchNtfsPollA \cup MatchNtfsPollB \cup MatchNtfsRaw

\* the framework takes the endpoint; it makes a peer of it or does not
MatchFactoryResults == {FactoryResult(TRUE, TRUE, TRUE, TRUE),
                        FactoryResult(FALSE, TRUE, TRUE, TRUE)}

\* the adapter right after its first activation
InitMatch ==
    \E ntf \in MatchNtfs, fw \in MatchFactoryResults :
        StateIs(nci_adapter_activation(AdapterInDiscovery, ntf, fw))

\* the identifier of the endpoint an activation announces
EndpointId(ntf) ==
    IF ~ntf.mode_param.present THEN ntf.mode_param_bytes
    ELSE IF ntf.mode \in PollModesA THEN ntf.mode_param.poll_a.nfcid1
    ELSE ntf.mode_param.poll_b.nfcid0

\* nci_adapter_intf_info_matches(priv->active_intf, ntf), as the next
\* activation calls it
IntfInfoMatches(ntf) ==
    /\ ~fault
    /\ Commit([S EXCEPT !.out =
           <<[Event("intf_info_matches", NULL, ntf.mode, {},
                    nci_adapter_intf_info_matches(active_intf, ntf), S)
                 EXCEPT !.data = EndpointId(ntf)]>>])

NextMatch == \E ntf \in MatchNtfs : IntfInfoMatches(ntf)

SpecMatch == InitMatch /\ [][NextMatch]_vars

-----------------------------------------------------------------------------
(* Card emulation and the allowed technologies *)

\* a tag, hosts of technology A and B, a listen-side peer and an activation
\* nothing is made of
TechNtfs == {NtfT2, NtfHostA, NtfHostB, NtfPeerListen, NtfUnknown}

\* the framework takes every object it is offered, or none
TechFactoryResults == {FactoryResult(TRUE, TRUE, TRUE, TRUE),
                       FactoryResult(FALSE, FALSE, FALSE, FALSE)}

\* the adapter between activations and deactivations of hosts, peers and
\* tags, while the framework changes the allowed technologies
NextTech ==
    \/ \E ntf \in TechNtfs, fw \in TechFactoryResults :
           NciIntfActivated(ntf, fw)
    \/ \E s \in NciStates \ {"ERROR"} : NciNextStateChanged(s)
    \/ NciCurrentStateChanged
    \/ CeReactivationTimeout
    \/ Reactivate(target)
    \/ DeactivateTarget(target)
    \/ DeactivateInitiator(initiator)
    \/ \E techs \in AllowedTechs : SetAllowedTechs(techs)
    \/ WeakPointerCleared("host")
    \/ PowerChanged(<<TRUE, TRUE, TRUE>>)

SpecTech == Init /\ [][NextTech]_vars

-----------------------------------------------------------------------------
(* Operation mode requests and the NCI state *)

\* the power states of the model and the one in which power-off has been
\* requested of an adapter that is still powered
PowerStatesAll == PowerStates \cup {<<TRUE, TRUE, FALSE>>}

\* the adapter between mode requests, power changes and NCI state changes,
\* with a tag or a host coming and going
NextModes ==
    \/ \E ntf \in {NtfT2, NtfHostA} :
           NciIntfActivated(ntf, FactoryResult(TRUE, TRUE, TRUE, TRUE))
    \/ \E s \in NciStates : NciNextStateChanged(s)
    \/ NciCurrentStateChanged
    \/ \E mode \in ModeRequests : SubmitModeRequest(mode)
    \/ CancelModeRequest
    \/ ModeCheckCb
    \/ \E p \in PowerStatesAll : PowerChanged(p)

SpecModes == Init /\ [][NextModes]_vars

-----------------------------------------------------------------------------
(* Reactivation of a target and presence checks *)

\* two Type 2 tags, a Type 1 tag, which has no presence check, and an
\* NFC-DEP peer, which needs none
ReactNtfs == {NtfT2, NtfT2Other, NtfT1, NtfPeerPoll}

\* a target between its activation, its reactivation on request and its
\* loss, with the presence-check timer running
NextReact ==
    \/ \E ntf \in ReactNtfs, fw \in TechFactoryResults :
           NciIntfActivated(ntf, fw)
    \/ \E s \in {"RFST_IDLE", "RFST_DISCOVERY", "RFST_POLL_ACTIVE"} :
           NciNextStateChanged(s)
    \/ NciCurrentStateChanged
    \/ \E sa, tx \in BOOLEAN : PresenceCheckTimer(sa, tx)
    \/ \E ok \in BOOLEAN : PresenceCheckDone(ok)
    \/ Reactivate(target)
    \/ DeactivateTarget(target)
    \/ PowerChanged(<<TRUE, TRUE, TRUE>>)

SpecReact == Init /\ [][NextReact]_vars

-----------------------------------------------------------------------------
(* The endpoints the handlers dereference *)

\* two tags, a host and a listen-side peer
EndpointNtfs == {NtfT2, NtfT2Other, NtfHostA, NtfPeerListen}

\* targets and initiators that come, are reactivated, are given up by the
\* framework and go, with both timers running
NextEndpoints ==
    \/ \E ntf \in EndpointNtfs, fw \in TechFactoryResults :
           NciIntfActivated(ntf, fw)
    \/ \E s \in {"RFST_IDLE", "RFST_DISCOVERY", "RFST_POLL_ACTIVE",
                 "RFST_LISTEN_ACTIVE"} : NciNextStateChanged(s)
    \/ NciCurrentStateChanged
    \/ CeReactivationTimeout
    \/ \E sa, tx \in BOOLEAN : PresenceCheckTimer(sa, tx)
    \/ \E ok \in BOOLEAN : PresenceCheckDone(ok)
    \/ Reactivate(target)
    \/ DeactivateTarget(target)
    \/ DeactivateInitiator(initiator)
    \/ \E w \in {"tag", "peer", "host"} : WeakPointerCleared(w)
    \/ PowerChanged(<<TRUE, TRUE, TRUE>>)

SpecEndpoints == Init /\ [][NextEndpoints]_vars

-----------------------------------------------------------------------------
(* Card emulation and the reactivation timer *)

\* a host and a listen-side peer
CeNtfs == {NtfHostA, NtfPeerListen}

\* an initiator between its activation, its deactivations and the
\* reactivation timeout
NextCe ==
    \/ \E ntf \in CeNtfs, fw \in TechFactoryResults :
           NciIntfActivated(ntf, fw)
    \/ \E s \in {"RFST_IDLE", "RFST_DISCOVERY", "RFST_LISTEN_ACTIVE"} :
           NciNextStateChanged(s)
    \/ NciCurrentStateChanged
    \/ CeReactivationTimeout
    \/ DeactivateInitiator(initiator)
    \/ WeakPointerCleared("host")
    \/ PowerChanged(<<TRUE, TRUE, TRUE>>)

\* the main loop runs: an armed timer that is not removed fires
SpecCe ==
    Init /\ [][NextCe]_vars /\ WF_vars(CeReactivationTimeout)

-----------------------------------------------------------------------------
(* Adapter parameters: LA_NFCID1 *)

\* sizeof(out->nfcid1.bytes) and sizeof(dest->bytes): NFCID1 is at most
\* triple size
NFCID1_SIZE == 10

MIN(a, b) == IF a < b THEN a ELSE b

\* NFCID1 values with a length field: the lengths the buffer holds and
\* lengths beyond it
Nfcid1Values ==
    {[len |-> n, bytes |-> [i \in 1..n |-> f + i]] :
        n \in 0..(NFCID1_SIZE + MaxLen), f \in {0, 16, 32, 48}}

\* g_new0(NfcAdapterParamValue, 1): obj is nfcid1.len, data the bytes that
\* memcpy has written from the start of nfcid1.bytes
ParamValue(a, len, bytes) ==
    [Event("NfcAdapterParamValue", len, "", {}, FALSE, a)
        EXCEPT !.data = bytes]

\* nci_adapter_get_param(adapter, NFC_ADAPTER_PARAM_LA_NFCID1) when
\* nci_core_get_param yields value. A memcpy beyond the end of the buffer
\* either runs through, writing all the bytes, or is caught and aborts.
nci_adapter_get_param(a, value, caught) ==
    LET len == MIN(value.len, NFCID1_SIZE)
        written == SubSeq(value.bytes, 1, value.len)
    IN  IF value.len > NFCID1_SIZE /\ caught
        THEN [a EXCEPT !.fault = TRUE]
        ELSE Emit(a, ParamValue(a, len, written))

\* nci_adapter_set_params with LA_NFCID1 in the list
nci_adapter_set_params(a, value, reset) ==
    LET len == IF value.len # 0 THEN MIN(value.len, NFCID1_SIZE) ELSE 0
        written == SubSeq(value.bytes, 1, len)
    IN  Emit(a, [Event("nci_core_set_params", len, "", {}, reset, a)
                    EXCEPT !.data = written])

GetParam(value, caught) ==
    /\ ~fault
    /\ Commit(nci_adapter_get_param(S, value, caught))

SetParams(value, reset) ==
    /\ ~fault
    /\ Commit(nci_adapter_set_params(S, value, reset))

\* the framework reads and writes LA_NFCID1
NextParam ==
    \/ \E value \in Nfcid1Values, caught \in BOOLEAN : GetParam(value, caught)
    \/ \E value \in Nfcid1Values, reset \in BOOLEAN : SetParams(value, reset)

SpecParam == Init /\ [][NextParam]_vars

-----------------------------------------------------------------------------
(* Properties of the adapter state machine *)

HasEvent(ev) == \E k \in 1..Len(out) : out[k].ev = ev

\* C1: the poll-side target and the listen-side initiator are never both
\* non-null, whatever callbacks and calls the adapter has handled.
C1_TargetInitiatorExclusive == ~(target # NULL /\ initiator # NULL)

\* an initiator is held after a target was created and dropped
C1_Witness ==
    /\ initiator # NULL /\ target = NULL
    /\ transmit_finish_fn # "none" /\ t_adapter = NULL

\* C2 as claimed: active_intf is non-null iff internal_state is not IDLE.
C2_IntfIffNotIdle == (~active_intf.null) <=> (internal_state # "IDLE")

\* C2 as the code has it: a stored active_intf implies that internal_state
\* is not IDLE and that an endpoint is held; in IDLE there is no active_intf
\* and no endpoint.
C2_IntfImpliesNotIdle ==
    /\ ~active_intf.null =>
           /\ internal_state # "IDLE"
           /\ (target # NULL \/ initiator # NULL)
    /\ internal_state = "IDLE" =>
           /\ active_intf.null
           /\ target = NULL /\ initiator = NULL

\* a tag is held with its active_intf; a peer is held without one
C2_Witness ==
    /\ internal_state = "HAVE_TARGET" /\ target # NULL
    /\ ~active_intf.null /\ tag # NULL

\* C3 as claimed: the presence-check timer is armed iff a target exists and
\* active_intf.protocol is not NFC_DEP.
C3_TimerIffTarget ==
    presence_check_timer <=>
        (target # NULL /\ ~active_intf.null
         /\ active_intf.protocol # "NFC_DEP")

\* NCI core is in a state in which it delivers RF_INTF_ACTIVATED_NTF
ActivationDue ==
    nci_current_state \in {"RFST_DISCOVERY", "RFST_POLL_ACTIVE",
                           "RFST_LISTEN_ACTIVE"}

\* C3 as the code has it: the presence-check timer is armed only while a
\* target exists with a stored active_intf whose protocol is not NFC_DEP and
\* internal_state is HAVE_TARGET; right after every activation it is armed
\* iff such a target exists.
C3_TimerOnlyWithTarget ==
    /\ presence_check_timer =>
           /\ target # NULL
           /\ ~active_intf.null
           /\ active_intf.protocol # "NFC_DEP"
           /\ internal_state = "HAVE_TARGET"
    /\ ActivationDue =>
           \A ntf \in Ntfs, fw \in FactoryResults :
               LET r == nci_adapter_activation(S, ntf, fw)
               IN  r.presence_check_timer <=>
                       (r.target # NULL /\ ~r.active_intf.null
                        /\ r.active_intf.protocol # "NFC_DEP")

\* presence checks are running for a tag
C3_Witness ==
    /\ presence_check_timer /\ target # NULL /\ presence_check_id # 0
    /\ active_intf.protocol = "T2T"

\* C4: if the CE reactivation timer is armed then internal_state is
\* REACTIVATING_CE.
C4_CeTimerOnlyReactivatingCe ==
    ce_reactivation_timer => internal_state = "REACTIVATING_CE"

\* C5: if active_tech_mask differs from TECH_ALL then the initiator is
\* non-null, and the mask only ever leaves TECH_ALL in a deactivation (an
\* NCI next-state change) handled in HAVE_INITIATOR with a host present.
C5_TechMaskLockedByHost ==
    /\ [](active_tech_mask # NCI_TECH_ALL => initiator # NULL)
    /\ [][(active_tech_mask' # active_tech_mask
             /\ active_tech_mask' # NCI_TECH_ALL) =>
            /\ internal_state = "HAVE_INITIATOR"
            /\ host # NULL /\ host = initiator
            /\ nci_next_state' # nci_next_state
            /\ internal_state' = "REACTIVATING_CE"
            /\ initiator' = initiator]_vars

\* the CE technology is locked
C5_Witness ==
    /\ active_tech_mask = NCI_TECH_B_LISTEN
    /\ initiator # NULL /\ internal_state = "REACTIVATED_CE"

\* C6: tag, host and peer are set only while their endpoint exists, and an
\* endpoint receives gone with the weak references already cleared.
C6_WeakRefsFollowEndpoint ==
    /\ tag # NULL => target # NULL /\ tag = target
    /\ host # NULL => initiator # NULL /\ host = initiator
    /\ peer # NULL => (target # NULL \/ initiator # NULL)
                      /\ peer \in {target, initiator}
    /\ \A k \in 1..Len(out) :
           /\ out[k].ev = "target_gone" =>
                  out[k].tag = NULL /\ out[k].peer = NULL
           /\ out[k].ev = "initiator_gone" =>
                  out[k].host = NULL /\ out[k].peer = NULL

\* a target that had a tag has just received gone
C6_Witness ==
    /\ HasEvent("target_gone") /\ target = NULL /\ tag = NULL
    /\ presence_check_fn = "t2"

-----------------------------------------------------------------------------
(* The target data path *)

\* the transmit_done calls among the events o, as <<status, data>> pairs
Delivered(o) ==
    LET td == SelectSeq(o, LAMBDA e : e.ev = "transmit_done")
    IN  [k \in 1..Len(td) |-> <<td[k].st, td[k].data>>]

HasLog(msg) == \E k \in 1..Len(out) : out[k].ev = "log" /\ out[k].st = msg

\* C7: with a transmit in flight and its send not yet completed, a data
\* packet on the static RF connection is buffered in pending_reply and no
\* transmit_done is delivered; the send completion then finalizes the
\* transmit with exactly the buffered payload; and the two callbacks deliver
\* the same transmit_done in either order.
C7_ReplyBeforeSendCompletion ==
    (transmit_in_progress /\ send_in_progress # 0 /\ ~pending_reply.present)
    => \A data \in Payloads, success \in BOOLEAN :
         LET early == nci_target_data_packet_handler(
                          S, NCI_STATIC_RF_CONN_ID, data)
             done == nci_target_data_sent(early, success)
             other == nci_target_data_packet_handler(
                          nci_target_data_sent(S, success),
                          NCI_STATIC_RF_CONN_ID, data)
         IN  /\ early.pending_reply = Reply(data)
             /\ Delivered(early.out) = <<>>
             /\ early.transmit_in_progress
             /\ early.send_in_progress = send_in_progress
             /\ Len(Delivered(done.out)) = 1
             /\ Delivered(done.out) =
                    Delivered(nci_target_finish_transmit(S, data).out)
             /\ transmit_finish_fn \in {"iso_dep", "nfc_dep"} =>
                    Delivered(done.out) = << <<"OK", data>> >>
             /\ done.pending_reply = NoReply
             /\ done.send_in_progress = 0 /\ ~done.transmit_in_progress
             /\ Delivered(other.out) = Delivered(done.out)
             /\ other.pending_reply = NoReply
             /\ other.send_in_progress = 0 /\ ~other.transmit_in_progress

\* a send completion has just finalized a transmit with a buffered reply
C7_Witness ==
    /\ HasLog("Send completed")
    /\ \E k \in 1..Len(out) :
           out[k].ev = "transmit_done" /\ out[k].st = "OK"
           /\ Len(out[k].data) = MaxLen
    /\ ~transmit_in_progress /\ send_in_progress = 0

\* C8 as claimed: a transmit that fails ends with transmit_done(ERROR,
\* empty), both when the finish step rejects the reply and when the send
\* completion reports that the send failed.
C8_FailedTransmitEndsWithError ==
    /\ transmit_in_progress =>
           \A data \in Payloads :
               LET r == nci_target_finish_transmit(S, data)
               IN  ~transmit_finish_fn_call(
                        [S EXCEPT !.transmit_in_progress = FALSE], data).ok
                   => /\ Delivered(r.out) = << <<"ERROR", <<>> >> >>
                      /\ ~r.transmit_in_progress
    /\ (transmit_in_progress /\ send_in_progress # 0) =>
           LET r == nci_target_data_sent(S, FALSE)
           IN  /\ Delivered(r.out) = << <<"ERROR", <<>> >> >>
               /\ ~r.transmit_in_progress

\* C9: a data packet whose connection id is not the static RF connection
\* id, or that comes with no transmit in flight, or with a pending reply
\* already buffered, changes none of send_in_progress, transmit_in_progress
\* and pending_reply and delivers no transmit_done.
C9_DataPacketIgnored ==
    \A cid \in Cids, data \in Payloads :
        (\/ cid # NCI_STATIC_RF_CONN_ID
         \/ ~transmit_in_progress
         \/ pending_reply.present)
        => LET r == nci_target_data_packet_handler(S, cid, data)
           IN  /\ r.send_in_progress = send_in_progress
               /\ r.transmit_in_progress = transmit_in_progress
               /\ r.pending_reply = pending_reply
               /\ Delivered(r.out) = <<>>

\* a packet has just been ignored while a reply was buffered
C9_Witness ==
    /\ HasLog("Unhandled data packet")
    /\ pending_reply.present /\ transmit_in_progress
    /\ send_in_progress # 0

\* C10: on the Frame interface a payload ending in
\* STATUS_RF_FRAME_CORRUPTED is finalized as transmit_done(ERROR, empty) and
\* a payload ending in any other octet as transmit_done(OK, the payload
\* without its last octet); on ISO-DEP and NFC-DEP the whole payload is
\* delivered as OK.
C10_FinishByInterface ==
    \A data \in Payloads :
        LET r == nci_target_finish_transmit(S, data)
            n == Len(data)
        IN  /\ (transmit_finish_fn = "frame" /\ n > 0) =>
                   IF data[n] = NCI_STATUS_RF_FRAME_CORRUPTED
                   THEN Delivered(r.out) = << <<"ERROR", <<>> >> >>
                   ELSE Delivered(r.out) =
                            << <<"OK", SubSeq(data, 1, n - 1)>> >>
            /\ transmit_finish_fn \in {"iso_dep", "nfc_dep"} =>
                   Delivered(r.out) = << <<"OK", data>> >>

\* a Frame reply with an unrecognized status octet has been delivered
C10_Witness ==
    /\ transmit_finish_fn = "frame"
    /\ HasLog("Hmm... transmission status")
    /\ \E k \in 1..Len(out) :
           out[k].ev = "transmit_done" /\ out[k].st = "OK"
           /\ Len(out[k].data) = MaxLen - 1

\* C11: cancel_transmit, in any state of the data path, leaves
\* transmit_in_progress false, send_in_progress zero (an outstanding send is
\* cancelled in NCI core) and pending_reply empty, and a send completion or
\* a data packet that comes after it delivers no transmit_done.
C11_CancelTransmitClearsAll ==
    LET r == nci_target_cancel_transmit(S)
    IN  /\ ~r.transmit_in_progress
        /\ r.send_in_progress = 0
        /\ r.pending_reply = NoReply
        /\ send_in_progress # 0 =>
               \E k \in 1..Len(r.out) :
                   r.out[k].ev = "nci_core_cancel"
                   /\ r.out[k].obj = send_in_progress
        /\ Delivered(r.out) = <<>>
        /\ \A success \in BOOLEAN :
               Delivered(nci_target_data_sent(r, success).out) = <<>>
        /\ \A cid \in Cids, data \in Payloads :
               Delivered(nci_target_data_packet_handler(r, cid, data).out)
                   = <<>>

\* a transmit with an outstanding send has just been cancelled on a live
\* target
C11_Witness ==
    /\ HasEvent("nci_core_cancel") /\ ~HasEvent("target_gone")
    /\ target # NULL /\ t_adapter # NULL
    /\ ~transmit_in_progress /\ send_in_progress = 0
    /\ ~pending_reply.present

-----------------------------------------------------------------------------
(* Reactivation of a target *)

\* what the adapter requires of a reactivate(t) call
ReactivateAllowed(t) ==
    /\ t # NULL /\ target = t
    /\ internal_state = "HAVE_TARGET"
    /\ ~active_intf.null
    /\ \/ /\ nci_current_state = "RFST_POLL_ACTIVE"
          /\ nci_next_state = "RFST_POLL_ACTIVE"
       \/ /\ nci_current_state = "RFST_LISTEN_ACTIVE"
          /\ nci_next_state = "RFST_LISTEN_ACTIVE"

\* the events o are exactly the given calls, by name and argument
Calls(o) == [k \in 1..Len(o) |-> <<o[k].ev, o[k].st, o[k].flag>>]

\* C12: reactivate(t) returns false, commands nothing and changes nothing
\* unless t is the current target, internal_state is HAVE_TARGET,
\* active_intf is set and the NCI current and next state are both
\* POLL_ACTIVE or both LISTEN_ACTIVE.
C12_ReactivateDenied ==
    \A t \in Objects :
        ~ReactivateAllowed(t) =>
            LET r == nci_adapter_reactivate(S, t)
            IN  /\ [r EXCEPT !.out = <<>>] = S
                /\ Calls(r.out) = << <<"return", "", FALSE>> >>

\* reactivate has just been denied with current POLL_ACTIVE, next DISCOVERY
C12_Witness ==
    /\ Calls(out) = << <<"return", "", FALSE>> >>
    /\ target # NULL /\ internal_state = "HAVE_TARGET"
    /\ ~active_intf.null
    /\ nci_current_state = "RFST_POLL_ACTIVE"
    /\ nci_next_state = "RFST_DISCOVERY"

\* C13: an accepted reactivate(t) returns true, moves to
\* REACTIVATING_TARGET, stops the presence-check timer, commands NCI to
\* DISCOVERY and changes nothing else; the NCI deactivation that follows
\* keeps the target, its active_intf and the state.
C13_ReactivateAccepted ==
    \A t \in Objects :
        ReactivateAllowed(t) =>
            LET r == nci_adapter_reactivate(S, t)
            IN  /\ r.internal_state = "REACTIVATING_TARGET"
                /\ ~r.presence_check_timer
                /\ Calls(r.out) =
                       << <<"nci_core_set_state", "RFST_DISCOVERY", FALSE>>,
                          <<"return", "", TRUE>> >>
                /\ [r EXCEPT !.out = <<>>] =
                       [S EXCEPT !.internal_state = "REACTIVATING_TARGET",
                                 !.presence_check_timer = FALSE]
                /\ \A s \in {"RFST_IDLE", "RFST_DISCOVERY"} :
                       LET d == nci_adapter_next_state_changed(
                                    [r EXCEPT !.nci_next_state = s,
                                              !.out = <<>>])
                       IN  /\ d.target = target /\ d.tag = tag
                           /\ d.active_intf = active_intf
                           /\ d.t_adapter = t_adapter
                           /\ d.internal_state = "REACTIVATING_TARGET"
                           /\ \A k \in 1..Len(d.out) :
                                  d.out[k].ev # "target_gone"

\* the deactivation that follows an accepted reactivate has been handled
C13_Witness ==
    /\ internal_state = "REACTIVATING_TARGET"
    /\ target # NULL /\ ~active_intf.null /\ ~presence_check_timer
    /\ nci_current_state = "RFST_POLL_ACTIVE"
    /\ nci_next_state = "RFST_DISCOVERY"

-----------------------------------------------------------------------------
(* Card emulation: reactivation of the host *)

Technologies == {"A", "B", "F", "UNKNOWN"}

\* the values of active_techs that nci_adapter_set_allowed_techs can leave
ActiveTechChoices ==
    {nci_adapter_set_allowed_techs(S, t).active_techs : t \in AllowedTechs}

\* the calls named ev among the events o, with object and tech argument
CallsOf(o, ev) ==
    LET c == SelectSeq(o, LAMBDA e : e.ev = ev)
    IN  [k \in 1..Len(c) |-> <<c[k].obj, c[k].tech>>]

\* C14: an NCI deactivation in HAVE_INITIATOR with a host present keeps the
\* initiator, moves to REACTIVATING_CE and arms the CE reactivation timer;
\* for initiator technology A (B) it sets active_tech_mask to TECH_A_LISTEN
\* (TECH_B_LISTEN) and pushes active_techs & mask to NCI; for any other
\* technology it leaves the mask and pushes no tech.
C14_DeactivationLocksCeTech ==
    (internal_state = "HAVE_INITIATOR" /\ host # NULL) =>
        \A tech \in Technologies, at \in ActiveTechChoices :
            LET a0 == [S EXCEPT !.initiator_technology = tech,
                                !.active_techs = at]
                d == nci_adapter_deactivation(a0)
                ce == CASE tech = "A" -> NCI_TECH_A_LISTEN
                        [] tech = "B" -> NCI_TECH_B_LISTEN
                        [] OTHER -> {}
            IN  /\ d.initiator = initiator /\ initiator # NULL
                /\ d.host = host /\ d.active_intf = active_intf
                /\ d.internal_state = "REACTIVATING_CE"
                /\ d.ce_reactivation_timer
                /\ CallsOf(d.out, "initiator_gone") = <<>>
                /\ IF tech \in {"A", "B"}
                   THEN /\ d.active_tech_mask = ce
                        /\ CallsOf(d.out, "nci_core_set_tech") =
                               << <<NULL, at \cap ce>> >>
                   ELSE /\ d.active_tech_mask = active_tech_mask
                        /\ d.out = <<>>

\* the CE technology A has just been locked by a deactivation
C14_Witness ==
    /\ internal_state = "REACTIVATING_CE" /\ ce_reactivation_timer
    /\ initiator # NULL /\ host # NULL
    /\ active_tech_mask = NCI_TECH_A_LISTEN
    /\ CallsOf(out, "nci_core_set_tech") = << <<NULL, NCI_TECH_A_LISTEN>> >>

\* C15: every activation that finds the CE reactivation timer armed, in
\* whatever internal state, stops it; in REACTIVATING_CE and in
\* REACTIVATED_CE an activation that matches active_intf ends in
\* REACTIVATED_CE with the same initiator, which is notified reactivated
\* exactly once.
C15_ActivationInCe ==
    (\/ ce_reactivation_timer
     \/ internal_state \in {"REACTIVATING_CE", "REACTIVATED_CE"}) =>
    \A ntf \in Ntfs, fw \in FactoryResults :
        LET r == nci_adapter_activation(S, ntf, fw)
        IN  /\ ~r.ce_reactivation_timer
            /\ (/\ internal_state \in {"REACTIVATING_CE", "REACTIVATED_CE"}
                /\ nci_adapter_intf_info_matches(active_intf, ntf)) =>
                   /\ r.internal_state = "REACTIVATED_CE"
                   /\ r.initiator = initiator /\ initiator # NULL
                   /\ r.host = host /\ r.active_intf = active_intf
                   /\ CallsOf(r.out, "initiator_reactivated") =
                          << <<initiator, {}>> >>
                   /\ CallsOf(r.out, "initiator_gone") = <<>>

\* a host with a locked technology has been reactivated
C15_Witness ==
    /\ internal_state = "REACTIVATED_CE" /\ ~ce_reactivation_timer
    /\ initiator # NULL /\ host # NULL
    /\ active_tech_mask = NCI_TECH_A_LISTEN
    /\ CallsOf(out, "initiator_reactivated") = << <<initiator, {}>> >>

\* C16: the expiry of the CE reactivation timer in REACTIVATING_CE ends in
\* IDLE with the initiator dropped and gone delivered to it, host and peer
\* cleared, active_intf freed, active_tech_mask back to TECH_ALL and the
\* unmasked active_techs pushed to NCI.
C16_CeTimeoutDropsInitiator ==
    (ce_reactivation_timer /\ internal_state = "REACTIVATING_CE") =>
        LET r == nci_adapter_ce_reactivation_timeout(S)
        IN  /\ r.internal_state = "IDLE"
            /\ ~r.ce_reactivation_timer
            /\ r.initiator = NULL /\ r.host = NULL /\ r.peer = NULL
            /\ r.active_intf.null
            /\ r.active_tech_mask = NCI_TECH_ALL
            /\ Len(CallsOf(r.out, "initiator_gone")) = 1
            /\ CallsOf(r.out, "nci_core_set_tech") =
                   << <<NULL, active_techs>> >>

-----------------------------------------------------------------------------
(* Dropping an endpoint on request *)

\* nci_core_set_state(RFST_DISCOVERY) is among the events o
CommandsDiscovery(o) ==
    \E k \in 1..Len(o) :
        o[k].ev = "nci_core_set_state" /\ o[k].st = "RFST_DISCOVERY"

C18_RepeatedActivationIdempotent ==
    (internal_state = "HAVE_INITIATOR" /\ host # NULL) =>
        \A ntf \in Ntfs, fw1 \in FactoryResults, fw2 \in FactoryResults :
            nci_adapter_intf_info_matches(active_intf, ntf) =>
                LET r1 == nci_adapter_activation(S, ntf, fw1)
                    r2 == nci_adapter_activation([r1 EXCEPT !.out = <<>>],
                                                 ntf, fw2)
                IN  /\ r1.internal_state = "REACTIVATED_CE"
                    /\ r2.internal_state = "REACTIVATED_CE"
                    /\ CallsOf(r1.out, "initiator_reactivated") =
                           << <<initiator, {}>> >>
                    /\ CallsOf(r2.out, "initiator_reactivated") =
                           << <<initiator, {}>> >>
                    /\ [r2 EXCEPT !.out = <<>>] = [r1 EXCEPT !.out = <<>>]
                    /\ r1.initiator = initiator /\ r1.host = host
                    /\ r1.active_intf = active_intf
                    /\ r1.active_tech_mask = active_tech_mask

\* a host whose technology was never locked has been reactivated
C18_Witness ==
    /\ internal_state = "REACTIVATED_CE" /\ host # NULL
    /\ active_tech_mask = NCI_TECH_ALL
    /\ CallsOf(out, "initiator_reactivated") = << <<initiator, {}>> >>

\* C19: after deactivate_target(t), whatever internal_state is, the next
\* activation never notifies reactivated and never takes t up again: it
\* runs object detection, and creates a new Target whenever the
\* notification is one a Target is made for.
C19_NoReuseAfterDeactivate ==
    (target # NULL /\ ActivationDue) =>
        LET t == target
            r == nci_adapter_deactivate_target(S, t)
        IN  \A ntf \in Ntfs, fw \in FactoryResults :
                LET r2 == nci_adapter_activation([r EXCEPT !.out = <<>>],
                                                 ntf, fw)
                IN  /\ CallsOf(r2.out, "target_reactivated") = <<>>
                    /\ CallsOf(r2.out, "target_gone") = <<>>
                    /\ r2.target # t
                    /\ nci_target_new(ntf).ok =>
                           /\ r2.target = next_id
                           /\ r2.next_id = next_id + 1
                           /\ r2.internal_state = "HAVE_TARGET"
                           /\ r2.t_adapter # NULL
                    /\ ~nci_target_new(ntf).ok => r2.target = NULL

\* a second Target has been created by an activation that had no target
\* to drop
C19_Witness ==
    /\ target = MaxObjects /\ tag = target
    /\ internal_state = "HAVE_TARGET" /\ ~active_intf.null
    /\ CallsOf(out, "target_gone") = <<>>
    /\ CallsOf(out, "target_reactivated") = <<>>
    /\ presence_check_timer

\* C20: deactivate_target(x) and deactivate_initiator(x) act only when x is
\* the adapter's current target (initiator): then the endpoint is dropped
\* with gone delivered once, active_intf, its timer and the weak references
\* cleared, and NCI is commanded to DISCOVERY exactly when powered; when x
\* is null or another object, nothing changes and nothing is commanded.
C20_DeactivateOnlyCurrent ==
    \A x \in Objects :
        LET rt == nci_adapter_deactivate_target(S, x)
            ri == nci_adapter_deactivate_initiator(S, x)
        IN  /\ IF x # NULL /\ x = target
               THEN /\ rt.target = NULL
                    /\ CallsOf(rt.out, "target_gone") = << <<x, {}>> >>
                    /\ rt.active_intf.null
                    /\ ~rt.presence_check_timer /\ rt.presence_check_id = 0
                    /\ rt.tag = NULL /\ rt.peer = NULL
                    /\ rt.t_adapter = NULL
                    /\ powered <=> CommandsDiscovery(rt.out)
               ELSE rt = S
            /\ IF x # NULL /\ x = initiator
               THEN /\ ri.initiator = NULL
                    /\ CallsOf(ri.out, "initiator_gone") = << <<x, {}>> >>
                    /\ ri.active_intf.null
                    /\ ~ri.ce_reactivation_timer
                    /\ ri.host = NULL /\ ri.peer = NULL
                    /\ powered <=> CommandsDiscovery(ri.out)
               ELSE ri = S

\* an initiator has just been dropped on request while powered
C20_Witness ==
    /\ CallsOf(out, "initiator_gone") # <<>> /\ CommandsDiscovery(out)
    /\ initiator = NULL /\ host = NULL /\ active_intf.null
    /\ internal_state = "HAVE_INITIATOR" /\ powered

-----------------------------------------------------------------------------
(* Properties of the match against the stored NciAdapterIntfInfo *)

\* interface, protocol, mode and activation parameters of the stored info
\* and of the notification are equal
SameIntf(info, ntf) ==
    /\ ~info.null
    /\ info.rf_intf = ntf.rf_intf
    /\ info.protocol = ntf.protocol
    /\ info.mode = ntf.mode
    /\ info.activation_param = ntf.activation_param_bytes

\* both sides carry parsed mode parameters
BothParsed(info, ntf) == info.mode_param_parsed.present /\ ntf.mode_param.present

\* the result of the last match and the notification it was made for
Matched(flag, mode, id) ==
    /\ Len(out) = 1
    /\ out[1].ev = "intf_info_matches" /\ out[1].flag = flag
    /\ out[1].st = mode /\ out[1].data = id

\* C21: for PASSIVE_POLL_A on Frame or ISO-DEP with interface, protocol,
\* mode and activation parameters equal, the stored info matches iff
\* sel_res, sel_res_len, nfcid1_len and sens_res are equal and either the
\* NFCID1 is single size with first octet 08h on both sides, whatever its
\* other octets, or the NFCID1s are byte-equal.
C21_PollAMatch ==
    \A ntf \in MatchNtfs :
        (/\ SameIntf(active_intf, ntf) /\ BothParsed(active_intf, ntf)
         /\ ntf.mode = "PASSIVE_POLL_A"
         /\ ntf.rf_intf \in {"FRAME", "ISO_DEP"}) =>
            LET p1 == active_intf.mode_param_parsed.poll_a
                p2 == ntf.mode_param.poll_a
                random == /\ p1.nfcid1_len = RANDOM_UID_SIZE
                          /\ p1.nfcid1[1] = RANDOM_UID_START_BYTE
                          /\ p2.nfcid1[1] = RANDOM_UID_START_BYTE
            IN  nci_adapter_intf_info_matches(active_intf, ntf) <=>
                    /\ p1.sel_res = p2.sel_res
                    /\ p1.sel_res_len = p2.sel_res_len
                    /\ p1.nfcid1_len = p2.nfcid1_len
                    /\ p1.sens_res = p2.sens_res
                    /\ random \/ p1.nfcid1 = p2.nfcid1

\* a tag with a random single-size NFCID1 matched a notification whose
\* NFCID1 has other octets after the 08h
C21_Witness ==
    /\ Matched(TRUE, "PASSIVE_POLL_A", <<RANDOM_UID_START_BYTE, 9, 2, 3>>)
    /\ active_intf.rf_intf = "FRAME"
    /\ active_intf.mode_param_parsed.poll_a.nfcid1 =
           <<RANDOM_UID_START_BYTE, 1, 2, 3>>

\* C22: for PASSIVE_POLL_B on ISO-DEP with interface, protocol, mode and
\* activation parameters equal, the stored info matches iff fsc, app_data
\* and prot_info (length and bytes) are equal; the NFCID0 plays no part.
C22_PollBMatch ==
    \A ntf \in MatchNtfs :
        (/\ SameIntf(active_intf, ntf) /\ BothParsed(active_intf, ntf)
         /\ ntf.mode = "PASSIVE_POLL_B" /\ ntf.rf_intf = "ISO_DEP") =>
            LET p1 == active_intf.mode_param_parsed.poll_b
                p2 == ntf.mode_param.poll_b
            IN  nci_adapter_intf_info_matches(active_intf, ntf) <=>
                    /\ p1.fsc = p2.fsc
                    /\ p1.app_data = p2.app_data
                    /\ p1.prot_info = p2.prot_info

\* a type 4B tag matched a notification with another NFCID0
C22_Witness ==
    /\ Matched(TRUE, "PASSIVE_POLL_B", <<7>>)
    /\ active_intf.rf_intf = "ISO_DEP"
    /\ active_intf.mode_param_parsed.poll_b.nfcid0 = <<0>>

\* C23: for every mode and interface other than PASSIVE_POLL_A on Frame or
\* ISO-DEP and PASSIVE_POLL_B on ISO-DEP, the stored info matches iff
\* interface, protocol and mode are equal and the raw mode parameter bytes
\* and activation parameter bytes are equal, length included.
C23_RawMatch ==
    \A ntf \in MatchNtfs :
        (/\ ~active_intf.null
         /\ ~(ntf.mode = "PASSIVE_POLL_A"
               /\ ntf.rf_intf \in {"FRAME", "ISO_DEP"})
         /\ ~(ntf.mode = "PASSIVE_POLL_B" /\ ntf.rf_intf = "ISO_DEP")) =>
            (nci_adapter_intf_info_matches(active_intf, ntf) <=>
                /\ active_intf.rf_intf = ntf.rf_intf
                /\ active_intf.protocol = ntf.protocol
                /\ active_intf.mode = ntf.mode
                /\ active_intf.mode_param = ntf.mode_param_bytes
                /\ active_intf.activation_param = ntf.activation_param_bytes)

\* PASSIVE_POLL_A on NFC-DEP: a random single-size NFCID1 with other octets
\* after the 08h did not match
C23_Witness ==
    /\ Matched(FALSE, "PASSIVE_POLL_A", <<RANDOM_UID_START_BYTE, 9, 2, 3>>)
    /\ active_intf.rf_intf = "NFC_DEP" /\ active_intf.mode = "PASSIVE_POLL_A"
    /\ active_intf.mode_param_parsed.poll_a =
           [sel_res |-> 0, sel_res_len |-> 1, nfcid1_len |-> RANDOM_UID_SIZE,
            sens_res |-> <<68, 0>>,
            nfcid1 |-> <<RANDOM_UID_START_BYTE, 1, 2, 3>>]

-----------------------------------------------------------------------------
(* Properties of activations that bring another endpoint, or none *)

\* C24: an activation that arrives in HAVE_INITIATOR, REACTIVATING_CE,
\* REACTIVATED_CE or REACTIVATING_TARGET and does not match active_intf
\* delivers gone once to the endpoint the adapter holds, with active_intf
\* freed and the weak references cleared by then, and runs object detection
\* on the notification: the endpoint it ends with, if any, is a new object
\* and active_intf, if any, is the one of the notification.
C24_MismatchDropsOld ==
    internal_state \in {"HAVE_INITIATOR", "REACTIVATING_CE",
                        "REACTIVATED_CE", "REACTIVATING_TARGET"} =>
    \A ntf \in Ntfs, fw \in FactoryResults :
        ~nci_adapter_intf_info_matches(active_intf, ntf) =>
            LET ofTarget == internal_state = "REACTIVATING_TARGET"
                old == IF ofTarget THEN target ELSE initiator
                gone == IF ofTarget THEN "target_gone" ELSE "initiator_gone"
                r == nci_adapter_activation(S, ntf, fw)
            IN  /\ old # NULL =>
                       /\ CallsOf(r.out, gone) = << <<old, {}>> >>
                       /\ r.target # old /\ r.initiator # old
                /\ old = NULL => CallsOf(r.out, gone) = <<>>
                /\ \A k \in 1..Len(r.out) :
                       r.out[k].ev = gone =>
                           /\ r.out[k].intf_null
                           /\ r.out[k].tag = NULL /\ r.out[k].host = NULL
                           /\ r.out[k].peer = NULL
                /\ r.target # NULL => r.target = next_id
                /\ r.initiator # NULL => r.initiator = next_id
                /\ nci_target_new(ntf).ok =>
                       r.target = next_id /\ r.internal_state = "HAVE_TARGET"
                /\ ~r.active_intf.null =>
                       r.active_intf = nci_adapter_intf_info_new(ntf)
                /\ (r.target = NULL /\ r.initiator = NULL) =>
                       r.internal_state = "IDLE" /\ r.active_intf.null

\* a host of technology A has been replaced by a host of technology B
C24_Witness ==
    /\ internal_state = "HAVE_INITIATOR"
    /\ initiator = MaxObjects /\ host = initiator
    /\ initiator_technology = "B"
    /\ active_intf.mode = "PASSIVE_LISTEN_B"
    /\ CallsOf(out, "initiator_gone") = << <<MaxObjects - 1, {}>> >>

\* the peer-target factory takes the initiator of this activation
PeerTargetAccepts(ntf, fw) ==
    nci_adapter_create_peer_target(AdapterInDiscovery, 1, ntf, fw).peer # NULL

\* the host factory takes the initiator of this activation
HostAccepts(ntf, fw) ==
    nci_adapter_create_host(AdapterInDiscovery, 1, ntf, fw).host # NULL

\* no factory makes an endpoint of this activation
Rejected(ntf, fw) ==
    /\ ~nci_target_new(ntf).ok
    /\ ~(/\ nci_initiator_new(ntf).ok
          /\ (PeerTargetAccepts(ntf, fw) \/ HostAccepts(ntf, fw)))

\* the activation finds an endpoint that it keeps
KeptByMatch(ntf) ==
    /\ nci_adapter_intf_info_matches(active_intf, ntf)
    /\ \/ internal_state = "REACTIVATING_TARGET" /\ target # NULL
       \/ /\ internal_state \in {"HAVE_INITIATOR", "REACTIVATING_CE",
                                  "REACTIVATED_CE"}
          /\ initiator # NULL

C27_MaskLocked ==
    [][/\ (active_tech_mask # NCI_TECH_ALL
           /\ active_tech_mask' # active_tech_mask) =>
              /\ active_tech_mask' = NCI_TECH_ALL
              /\ initiator # NULL /\ initiator' # initiator
              /\ CallsOf(out', "initiator_gone") # <<>>
       /\ \A k \in 1..Len(out') :
              out'[k].ev = "nci_core_set_tech" =>
                  /\ out'[k].tech = active_techs' \cap active_tech_mask'
                  /\ out'[k].tech \subseteq active_tech_mask']_vars

\* with the mask locked to A listen, the framework allowed B and F only and
\* nothing was pushed to NCI but the empty set
C27_Witness ==
    /\ active_tech_mask = NCI_TECH_A_LISTEN /\ initiator # NULL
    /\ "A_LISTEN" \notin active_techs /\ "B_LISTEN" \in active_techs
    /\ CallsOf(out, "nci_core_set_tech") = << <<NULL, {}>> >>

-----------------------------------------------------------------------------
(* Properties of the mode check and of the state check *)

\* the nfc_adapter_mode_notify calls among the events o, as
\* <<mode, confirmed>> pairs
Notified(o) ==
    LET mn == SelectSeq(o, LAMBDA e : e.ev = "mode_notify")
    IN  [k \in 1..Len(mn) |-> <<mn[k].tech, mn[k].flag>>]

\* C26: the mode check takes desired_mode as the effective mode when the NCI
\* current state is above RFST_IDLE and NONE otherwise. With a change
\* pending and effective = desired it clears the flag and publishes
\* (mode, TRUE) once, and a second check publishes nothing; with a change
\* pending and effective # desired it publishes nothing; with no change
\* pending and current_mode # effective it updates current_mode and
\* publishes (mode, FALSE); otherwise it publishes nothing.
C26_ModeCheck ==
    LET effective == IF NciStateRank(nci_current_state)
                           > NciStateRank("RFST_IDLE")
                     THEN desired_mode ELSE {}
        r == nci_adapter_mode_check(S)
        again == nci_adapter_mode_check([r EXCEPT !.out = <<>>])
    IN  /\ ~r.mode_check_id
        /\ (mode_change_pending /\ effective = desired_mode) =>
               /\ ~r.mode_change_pending
               /\ r.current_mode = effective
               /\ Notified(r.out) = << <<effective, TRUE>> >>
               /\ again.out = <<>>
        /\ (mode_change_pending /\ effective # desired_mode) =>
               /\ r.out = <<>>
               /\ r.mode_change_pending
               /\ r.current_mode = current_mode
        /\ (~mode_change_pending /\ current_mode # effective) =>
               /\ r.current_mode = effective
               /\ Notified(r.out) = << <<effective, FALSE>> >>
               /\ ~r.mode_change_pending
        /\ (~mode_change_pending /\ current_mode = effective) =>
               r = [S EXCEPT !.mode_check_id = FALSE]
        /\ [r EXCEPT !.out = <<>>] =
               [S EXCEPT !.mode_check_id = FALSE,
                         !.mode_change_pending = r.mode_change_pending,
                         !.current_mode = r.current_mode]

\* a requested reader/writer mode has just been confirmed with NCI in
\* RFST_DISCOVERY
C26_Witness ==
    /\ Notified(out) = << <<{"READER_WRITER"}, TRUE>> >>
    /\ ~mode_change_pending
    /\ current_mode = {"READER_WRITER"} /\ desired_mode = current_mode
    /\ nci_current_state = "RFST_DISCOVERY"

\* the adapter after the NCI next-state callback for s, and after the NCI
\* current-state callback
AfterNextState(s) ==
    nci_adapter_next_state_changed([S EXCEPT !.nci_next_state = s])
AfterCurrentState ==
    nci_adapter_current_state_changed(
        [S EXCEPT !.nci_current_state = nci_next_state])

SettledIdle(r) ==
    r.nci_current_state = "RFST_IDLE" /\ r.nci_next_state = "RFST_IDLE"

\* C28 as claimed: after an NCI current-state or next-state change, an
\* enabled and powered adapter with NCI settled in RFST_IDLE has commanded
\* NCI to RFST_DISCOVERY.
C28_KickWhenPowered ==
    \A r \in {AfterNextState(s) : s \in NciStates} \cup {AfterCurrentState} :
        (enabled /\ powered /\ SettledIdle(r)) => CommandsDiscovery(r.out)

\* C28 as the code has it: an NCI current-state or next-state callback
\* commands NCI to RFST_DISCOVERY exactly when NCI has settled in RFST_IDLE
\* and the adapter is enabled, powered and has its power requested.
C28_KickWhenPowerRequested ==
    \A r \in {AfterNextState(s) : s \in NciStates} \cup {AfterCurrentState} :
        CommandsDiscovery(r.out) <=>
            (SettledIdle(r) /\ enabled /\ powered /\ power_requested)

\* NCI settled in RFST_IDLE under an adapter whose power is requested, and
\* the callback commanded RFST_DISCOVERY
C28_Witness ==
    /\ nci_current_state = "RFST_IDLE" /\ nci_next_state = "RFST_IDLE"
    /\ enabled /\ powered /\ power_requested
    /\ CommandsDiscovery(out)
    /\ ~HasEvent("nci_core_set_op_mode")

-----------------------------------------------------------------------------
(* Properties of the adapter parameters *)

\* C29: for every length NCI reports for LA_NFCID1, one larger than the
\* framework's buffer included, get_param returns and has written
\* min(NCI length, framework maximum) bytes to its result.
C29_GetParamClamps ==
    \A value \in Nfcid1Values, caught \in BOOLEAN :
        LET r == nci_adapter_get_param(S, value, caught)
        IN  /\ ~r.fault
            /\ Len(r.out) = 1
            /\ r.out[1].obj = MIN(value.len, NFCID1_SIZE)
            /\ Len(r.out[1].data) = MIN(value.len, NFCID1_SIZE)

-----------------------------------------------------------------------------
(* Properties of the target teardown *)

\* C30: gone detaches the target from NCI: the outstanding send is cancelled
\* with nci_core_cancel, the data-packet handler is removed, the adapter
\* back-pointer is null, and a later transmit returns FALSE without a send
\* in progress; a detached target has no send in progress and no handler
\* run on it delivers transmit_done.
C30_GoneDetaches ==
    /\ t_adapter = NULL =>
           send_in_progress = 0 /\ ~HasEvent("transmit_done")
    /\ \A t \in Objects :
           LET r == nci_target_gone(S, t)
               d == [r EXCEPT !.out = <<>>]
           IN  /\ r.t_adapter = NULL
               /\ r.send_in_progress = 0
               /\ ~r.pending_reply.present
               /\ CallsOf(r.out, "nci_core_cancel") =
                      IF S.t_adapter # NULL /\ S.send_in_progress # 0
                      THEN << <<S.send_in_progress, {}>> >>
                      ELSE <<>>
               /\ Len(CallsOf(r.out, "nci_core_remove_all_handlers")) =
                      IF S.t_adapter # NULL THEN 1 ELSE 0
               /\ Len(CallsOf(r.out, "transmit_done")) = 0
               /\ \A id \in SendIds :
                      LET x == nci_target_transmit(d, id)
                      IN  /\ Calls(x.out) = << <<"return", "", FALSE>> >>
                          /\ [x EXCEPT !.out = <<>>] = d

\* the target has just been dropped with a send outstanding: the send was
\* cancelled and the handler removed
C30_Witness ==
    /\ TargetExists /\ t_adapter = NULL /\ target = NULL
    /\ send_in_progress = 0
    /\ HasEvent("nci_core_cancel")
    /\ HasEvent("nci_core_remove_all_handlers")
    /\ HasEvent("target_gone")

-----------------------------------------------------------------------------
(* Properties of target reactivation and of presence checks *)

\* C31: in REACTIVATING_TARGET an activation that matches active_intf
\* returns the adapter to HAVE_TARGET with the same target, delivers
\* reactivated to that target exactly once, makes no new target, tag or
\* peer, and leaves the presence-check timer armed exactly when the
\* protocol of active_intf is not NFC_DEP.
C31_TargetReactivated ==
    internal_state = "REACTIVATING_TARGET" =>
        \A ntf \in ReactNtfs, fw \in TechFactoryResults :
            nci_adapter_intf_info_matches(active_intf, ntf) =>
                LET r == nci_adapter_activation(S, ntf, fw)
                IN  /\ r.internal_state = "HAVE_TARGET"
                    /\ S.target # NULL /\ r.target = S.target
                    /\ CallsOf(r.out, "target_reactivated") =
                           << <<S.target, {}>> >>
                    /\ Len(CallsOf(r.out, "target_gone")) = 0
                    /\ r.next_id = S.next_id
                    /\ r.tag = S.tag /\ r.peer = S.peer
                    /\ r.active_intf = S.active_intf
                    /\ r.presence_check_timer =
                           (S.active_intf.protocol # "NFC_DEP")

\* a Type 2 tag has just been reactivated: it is the target the adapter
\* held and its presence-check timer runs again
C31_Witness ==
    /\ internal_state = "HAVE_TARGET"
    /\ HasEvent("target_reactivated")
    /\ target # NULL /\ presence_check_timer
    /\ active_intf.protocol = "T2T"

\* C32: a tick of the presence-check timer starts a probe only when
\* presence_check_id is zero and the target has no sequence or one that
\* allows presence checks; otherwise the tick changes nothing, calls
\* nothing and the timer keeps running. A probe in flight is never replaced.
C32_OneProbeInFlight ==
    presence_check_timer =>
        \A sa, tx \in BOOLEAN :
            LET r == nci_adapter_presence_check_timer(S, sa, tx)
            IN  /\ ~r.fault
                /\ (presence_check_id # 0 \/ ~sa) =>
                       /\ r = S
                       /\ r.presence_check_timer
                /\ r.presence_check_id # presence_check_id =>
                       presence_check_id = 0 /\ sa

\* a probe is in flight while the timer is still running: the next tick
\* is skipped
C32_Witness ==
    /\ presence_check_timer /\ presence_check_id # 0
    /\ target # NULL /\ internal_state = "HAVE_TARGET"

\* the probe of a tick cannot be started: the target has no presence-check
\* function (T1T, T3T) or its transmit is refused
ProbeFails(a, tx) == a.presence_check_fn = "none" \/ ~tx

\* C33: when a tick that is due to probe cannot start the probe, the
\* presence-check timer stops and NCI is commanded to RFST_DISCOVERY; the
\* tick does not drop the target: target, active_intf and internal_state
\* stay and no gone is delivered.
C33_ProbeNotStarted ==
    (presence_check_timer /\ presence_check_id = 0) =>
        \A tx \in BOOLEAN :
            ProbeFails(S, tx) =>
                LET r == nci_adapter_presence_check_timer(S, TRUE, tx)
                IN  /\ ~r.fault
                    /\ ~r.presence_check_timer
                    /\ r.presence_check_id = 0
                    /\ CommandsDiscovery(r.out)
                    /\ Len(r.out) = 1
                    /\ Len(CallsOf(r.out, "target_gone")) = 0
                    /\ r.target = S.target /\ r.target # NULL
                    /\ r.tag = S.tag
                    /\ r.active_intf = S.active_intf
                    /\ r.internal_state = S.internal_state

\* the tick on a Type 1 tag, which has no presence check, has just stopped
\* the timer and commanded RFST_DISCOVERY; the adapter still holds the tag
C33_Witness ==
    /\ target # NULL /\ presence_check_fn = "none"
    /\ active_intf.protocol = "T1T"
    /\ ~presence_check_timer /\ presence_check_id = 0
    /\ internal_state = "HAVE_TARGET"
    /\ CommandsDiscovery(out) /\ Len(out) = 1

-----------------------------------------------------------------------------
(* Properties of the deactivation handler *)

\* what the deactivation handler delivers gone to
GoneCalls(o) ==
    CallsOf(o, "target_gone") \o CallsOf(o, "initiator_gone")

\* C34: an NCI deactivation in REACTIVATING_TARGET or REACTIVATING_CE
\* changes nothing, so internal_state, target, initiator, active_intf,
\* active_tech_mask and both timers stay; in REACTIVATED_CE it moves to
\* REACTIVATING_CE with the CE timer armed and the initiator kept; in
\* HAVE_TARGET, and in HAVE_INITIATOR without a host, it delivers gone to
\* the endpoint held and ends in IDLE with no endpoint, no active_intf and
\* no timer.
C34_DeactivationByState ==
    LET r == nci_adapter_deactivation(S)
    IN  /\ internal_state \in {"REACTIVATING_TARGET", "REACTIVATING_CE"} =>
               r = S
        /\ internal_state = "REACTIVATED_CE" =>
               /\ r.internal_state = "REACTIVATING_CE"
               /\ r.ce_reactivation_timer
               /\ r.out = <<>>
               /\ [r EXCEPT !.internal_state = internal_state,
                            !.ce_reactivation_timer = ce_reactivation_timer]
                      = S
        /\ (\/ internal_state = "HAVE_TARGET"
            \/ internal_state = "HAVE_INITIATOR" /\ host = NULL) =>
               /\ r.internal_state = "IDLE"
               /\ r.target = NULL /\ r.initiator = NULL
               /\ r.active_intf.null
               /\ r.tag = NULL /\ r.peer = NULL /\ r.host = NULL
               /\ ~r.presence_check_timer /\ ~r.ce_reactivation_timer
               /\ GoneCalls(r.out) =
                      (IF target # NULL THEN << <<target, {}>> >> ELSE <<>>)
                      \o (IF initiator # NULL
                          THEN << <<initiator, {}>> >> ELSE <<>>)

\* a deactivation has just arrived while the target is being reactivated:
\* the adapter still holds the target and waits for its activation
C34_Witness ==
    /\ internal_state = "REACTIVATING_TARGET"
    /\ target # NULL /\ ~active_intf.null
    /\ nci_next_state = "RFST_DISCOVERY"
    /\ nci_current_state = "RFST_POLL_ACTIVE"
    /\ ~HasEvent("return")

-----------------------------------------------------------------------------
(* Properties of an initiator that has no host *)

\* C35: in HAVE_INITIATOR with no host, an activation that matches
\* active_intf keeps the initiator, the peer, active_intf and
\* HAVE_INITIATOR, and delivers no reactivated and no gone: it calls
\* nothing at all.
C35_PeerInitiatorKept ==
    (internal_state = "HAVE_INITIATOR" /\ host = NULL) =>
        \A ntf \in TechNtfs, fw \in TechFactoryResults :
            nci_adapter_intf_info_matches(active_intf, ntf) =>
                LET r == nci_adapter_activation(S, ntf, fw)
                IN  /\ initiator # NULL /\ r.initiator = initiator
                    /\ r.internal_state = "HAVE_INITIATOR"
                    /\ r.peer = peer /\ r.host = NULL
                    /\ r.active_intf = active_intf
                    /\ r.next_id = next_id
                    /\ r.out = <<>>

\* a listen-side peer is held after its activation, which left nothing to
\* deliver; the same activation again matches and leaves this very state
C35_Witness ==
    /\ internal_state = "HAVE_INITIATOR" /\ host = NULL
    /\ initiator # NULL /\ peer = initiator
    /\ nci_adapter_intf_info_matches(active_intf, NtfPeerListen)
    /\ out = <<>>
    /\ next_id = initiator + 1

-----------------------------------------------------------------------------
(* Invariants of the target data path *)

\* C36: in every reachable state of the data path a buffered pending_reply
\* implies that send_in_progress is non-zero, and a non-zero
\* send_in_progress implies that transmit_in_progress is true.
C36_DataPathFlags ==
    /\ pending_reply.present => send_in_progress # 0
    /\ send_in_progress # 0 => transmit_in_progress

\* a reply is buffered while the send of its transmit is still outstanding
C36_Witness ==
    /\ pending_reply.present
    /\ send_in_progress # 0 /\ transmit_in_progress
    /\ HasLog("Waiting for send to complete")

\* a step of the data path delivers at most one transmit_done, and only by
\* ending the transmit in progress; a transmit begins only when
\* nci_target_transmit returns TRUE
TransmitDoneStep ==
    /\ Len(Delivered(out')) <= 1
    /\ Len(Delivered(out')) = 1 =>
           transmit_in_progress /\ ~transmit_in_progress'
    /\ (~transmit_in_progress /\ transmit_in_progress') =>
           Calls(out') = << <<"return", "", TRUE>> >>

\* with no transmit in progress neither a data packet nor a send completion
\* delivers a transmit_done
NothingToFinish ==
    ~transmit_in_progress =>
        /\ \A cid \in Cids, data \in Payloads :
               Delivered(nci_target_data_packet_handler(S, cid, data).out)
                   = <<>>
        /\ \A ok \in BOOLEAN :
               Delivered(nci_target_data_sent(S, ok).out) = <<>>

\* C37: for each accepted transmit the target delivers transmit_done at
\* most once, however send completion, data packets and cancel_transmit
\* interleave: a delivery ends the transmit in progress, only an accepted
\* transmit begins one, and a data packet that comes after the transmit was
\* finalized delivers nothing.
C37_TransmitDoneOnce == []NothingToFinish /\ [][TransmitDoneStep]_vars

\* a second data packet has just come after its transmit was finalized: it
\* was logged as unhandled and nothing was delivered
C37_Witness ==
    /\ TargetExists /\ t_adapter # NULL
    /\ ~transmit_in_progress /\ send_in_progress = 0
    /\ HasLog("Unhandled data packet")
    /\ Delivered(out) = <<>>

-----------------------------------------------------------------------------
(* Properties of the endpoints the handlers dereference *)

\* the reactivated notifications among the events o go to an object
ReactivatedNonNull(o) ==
    \A k \in 1..Len(o) :
        o[k].ev \in {"target_reactivated", "initiator_reactivated"} =>
            o[k].obj # NULL

\* C38: the adapter never uses a null endpoint. No handler has
\* dereferenced one; an activation delivers reactivated only to a target
\* or initiator it holds; a deactivation that reads the initiator's
\* technology (HAVE_INITIATOR with a host) finds an initiator; and the
\* presence-check timer is armed only with a target, so its callback reads
\* the sequence of a target.
C38_NoNullEndpoint ==
    /\ ~fault
    /\ ReactivatedNonNull(out)
    /\ \A ntf \in EndpointNtfs, fw \in TechFactoryResults :
           LET r == nci_adapter_activation(S, ntf, fw)
           IN  ~r.fault /\ ReactivatedNonNull(r.out)
    /\ ~nci_adapter_deactivation(S).fault
    /\ (internal_state = "HAVE_INITIATOR" /\ host # NULL) =>
           initiator # NULL
    /\ presence_check_timer =>
           /\ target # NULL
           /\ \A sa, tx \in BOOLEAN :
                  ~nci_adapter_presence_check_timer(S, sa, tx).fault

\* the framework has given the target up while it was being reactivated:
\* internal_state is still REACTIVATING_TARGET and there is no target
C38_Witness ==
    /\ internal_state = "REACTIVATING_TARGET"
    /\ target = NULL /\ active_intf.null
    /\ HasEvent("target_gone")

-----------------------------------------------------------------------------
(* The match of a snapshot against the notification it was made from *)

\* C39: the NciAdapterIntfInfo made from an activation notification matches
\* that notification, for every mode and interface, with the parsed mode
\* parameters copied into the snapshot and without them; so the snapshot
\* the adapter holds matches the notification it was made from.
C39_MatchReflexive ==
    /\ \A ntf \in MatchNtfs :
           LET info == nci_adapter_intf_info_new(ntf)
           IN  /\ nci_adapter_intf_info_matches(info, ntf)
               /\ nci_adapter_intf_info_matches(
                      [info EXCEPT !.mode_param_parsed = NoModeParam], ntf)
    /\ ~active_intf.null =>
           \E ntf \in MatchNtfs :
               /\ active_intf = nci_adapter_intf_info_new(ntf)
               /\ nci_adapter_intf_info_matches(active_intf, ntf)

\* the snapshot of a listen-side peer, which has no parsed mode parameters,
\* has just matched the notification it was made from
C39_Witness ==
    /\ Matched(TRUE, "PASSIVE_LISTEN_F", <<3, 4>>)
    /\ active_intf =
           nci_adapter_intf_info_new(
               Ntf("NFC_DEP", "NFC_DEP", "PASSIVE_LISTEN_F", <<3, 4>>,
                   NoModeParam, <<2>>))
    /\ initiator # NULL

-----------------------------------------------------------------------------
(* Properties of the CE reactivation timer *)

\* the adapter holds an initiator and waits for its reactivation
WaitingForCe == internal_state = "REACTIVATING_CE" /\ initiator # NULL

\* C40: whenever internal_state is REACTIVATING_CE and the initiator is
\* non-null, the CE reactivation timer is armed; and, an armed timer firing
\* unless it is removed, an adapter that holds an initiator in
\* REACTIVATING_CE eventually leaves that state.
C40_CeReactivationEnds ==
    /\ [](WaitingForCe => ce_reactivation_timer)
    /\ WaitingForCe ~> ~WaitingForCe

\* NCI is back in RFST_DISCOVERY after the deactivation of a host; the
\* adapter holds the initiator and the timer runs
C40_Witness ==
    /\ WaitingForCe /\ ce_reactivation_timer
    /\ host = initiator
    /\ nci_current_state = "RFST_DISCOVERY"
    /\ nci_next_state = "RFST_DISCOVERY"

=============================================================================
